---- MODULE Spec2Model ----
(***************************************************************************)
(* Verification model of the multi-detector risk aggregation of            *)
(* ML_MODELS/enhanced_prediction_api.py (class EnhancedPredictionAPI).     *)
(*                                                                         *)
(* Numbers.  Probabilities and risk scores are floats in the source.  The  *)
(* model keeps them as exact integers in units of 1/(100*ProbSteps): the   *)
(* value 1.0 is One, a probability is a multiple of 100 (k/ProbSteps) and  *)
(* a weight of w hundredths is w*ProbSteps units, so that 0.4*p and every  *)
(* sum of weights is represented without rounding.  Feature values and     *)
(* static cutoffs are in tenths (1.0 is 10), anomaly scores in tenths,     *)
(* detector confidences in hundredths.                                     *)
(***************************************************************************)
EXTENDS Integers, Sequences, FiniteSets, TLC

VARIABLES
    \* ---- EnhancedPredictionAPI object (enhanced_prediction_api.py:16-22)
    disk,               \* persisted artifacts found by load_all_models
    models,             \* self.models: detector name -> loaded model object
    scalers,            \* self.scalers: set of scaler names loaded
    thresholds,         \* self.thresholds: table loaded from thresholds.pkl
    feature_groups,     \* self.feature_groups: table from feature_groups.pkl
    basic_models,       \* self.basic_models: name -> primary classifier
    feature_names,      \* self.feature_names: ordered feature list
    pc,                 \* "constructed" | "ready" | "returned", and for
                        \* prediction_api.py "imported" | "answered"
    request,            \* arguments of the predict_comprehensive call
    results,            \* dict returned by predict_comprehensive
    observer,           \* a caller's record of the first call it made
    \* ---- prediction_api.py
    MODELS,             \* module-level MODELS, as they answer the request row
    \* ---- complete_dashboard.py
    attack_type_history, \* module-level counters per attack type
    \* ---- one dashboard process (clean_dashboard.py and the others)
    app,                \* the Flask app of the process: the name of its
                        \* dashboard module, or None
    stats,              \* its module-level stats dict
    predictions_history, \* its deque of recorded predictions
    logs,               \* its log deques, by name
    worker,             \* auto_detection_worker: its position and locals
    \* ---- one call of _calculate_risk_score (enhanced_prediction_api.py:470)
    detailed_analysis,  \* its first argument (insertion-ordered dict)
    attack_probability, \* its second argument
    risk_score          \* its return value, NoScore before the call

vars == << disk, models, scalers, thresholds, feature_groups, basic_models,
           feature_names, pc, request, results, observer, MODELS,
           attack_type_history, app, stats, predictions_history, logs,
           worker,
           detailed_analysis, attack_probability, risk_score >>

api_vars == << disk, models, scalers, thresholds, feature_groups,
               basic_models, feature_names, pc, request, results, observer,
               MODELS >>

risk_vars == << detailed_analysis, attack_probability, risk_score >>

dashboard_vars == << attack_type_history, app, stats,
                     predictions_history, logs, worker >>

-----------------------------------------------------------------------------
(* Bounds and units *)

\* number of steps of the probability grid 0, 1/ProbSteps, ..., 1
ProbSteps == 4

\* the float 1.0 in risk units
One == 100 * ProbSteps

\* the primary attack probabilities drawn as inputs, 0.0 .. 1.0
Probs == { 100 * k : k \in 0..ProbSteps }

None == "None"

Min(a, b) == IF a < b THEN a ELSE b

Abs(a) == IF a < 0 THEN 0 - a ELSE a

-----------------------------------------------------------------------------
(* Python dicts.  A dict whose iteration order matters is a sequence of    *)
(* [name, value] items in insertion order; others are TLA+ functions.      *)

\* key in d, for an insertion-ordered dict
Has(d, k) == \E i \in 1..Len(d) : d[i].name = k

\* d[k], for an insertion-ordered dict that has k
Item(d, k) == d[CHOOSE i \in 1..Len(d) : d[i].name = k].value

\* d.get(k, default), for a dict kept as a function
Get(d, k, default) == IF k \in DOMAIN d THEN d[k] ELSE default

\* d[k] = v appended to an insertion-ordered dict (keys are set once here)
Put(d, k, v) == Append(d, [name |-> k, value |-> v])

-----------------------------------------------------------------------------
(* Risk aggregator *)

\* risk_factors with the bandwidth weight entered with the wrong sign
risk_factors_negative ==
    << [analysis |-> "dos_detection",            key |-> "is_dos",               weight |-> 20],
       [analysis |-> "fuzzer_detection",         key |-> "is_fuzzer",            weight |-> 15],
       [analysis |-> "port_scan_detection",      key |-> "is_port_scan",         weight |-> 15],
       [analysis |-> "brute_force_detection",    key |-> "is_brute_force",       weight |-> 10],
       [analysis |-> "reconnaissance_detection", key |-> "is_reconnaissance",    weight |-> 10],
       [analysis |-> "bandwidth_analysis",       key |-> "high_bandwidth",       weight |-> 0 - 5],
       [analysis |-> "tcp_behavior_analysis",    key |-> "suspicious_tcp",       weight |-> 5],
       [analysis |-> "packet_size_analysis",     key |-> "abnormal_packet_size", weight |-> 5],
       [analysis |-> "timing_analysis",          key |-> "timing_anomaly",       weight |-> 5],
       [analysis |-> "session_analysis",         key |-> "session_anomaly",      weight |-> 5] >>

\* risk_factors with the five heavy weights halved (the weights then sum to 0.6)
risk_factors_light ==
    << [analysis |-> "dos_detection",            key |-> "is_dos",               weight |-> 10],
       [analysis |-> "fuzzer_detection",         key |-> "is_fuzzer",            weight |-> 10],
       [analysis |-> "port_scan_detection",      key |-> "is_port_scan",         weight |-> 5],
       [analysis |-> "brute_force_detection",    key |-> "is_brute_force",       weight |-> 5],
       [analysis |-> "reconnaissance_detection", key |-> "is_reconnaissance",    weight |-> 5],
       [analysis |-> "bandwidth_analysis",       key |-> "high_bandwidth",       weight |-> 5],
       [analysis |-> "tcp_behavior_analysis",    key |-> "suspicious_tcp",       weight |-> 5],
       [analysis |-> "packet_size_analysis",     key |-> "abnormal_packet_size", weight |-> 5],
       [analysis |-> "timing_analysis",          key |-> "timing_anomaly",       weight |-> 5],
       [analysis |-> "session_analysis",         key |-> "session_anomaly",      weight |-> 5] >>

\* the risk_factors list of _calculate_risk_score, weights in hundredths
risk_factors ==
    << [analysis |-> "dos_detection",            key |-> "is_dos",               weight |-> 20],
       [analysis |-> "fuzzer_detection",         key |-> "is_fuzzer",            weight |-> 15],
       [analysis |-> "port_scan_detection",      key |-> "is_port_scan",         weight |-> 15],
       [analysis |-> "brute_force_detection",    key |-> "is_brute_force",       weight |-> 10],
       [analysis |-> "reconnaissance_detection", key |-> "is_reconnaissance",    weight |-> 10],
       [analysis |-> "bandwidth_analysis",       key |-> "high_bandwidth",       weight |-> 5],
       [analysis |-> "tcp_behavior_analysis",    key |-> "suspicious_tcp",       weight |-> 5],
       [analysis |-> "packet_size_analysis",     key |-> "abnormal_packet_size", weight |-> 5],
       [analysis |-> "timing_analysis",          key |-> "timing_anomaly",       weight |-> 5],
       [analysis |-> "session_analysis",         key |-> "session_anomaly",      weight |-> 5] >>

\* attack_probability * 0.4
base_risk(p) == (p * 40) \div 100

\* the for loop with overlapping categories deduplicated: High Bandwidth
\* adds nothing when DoS is flagged on the same row
RECURSIVE risk_loop_dedup(_, _, _)
risk_loop_dedup(da, i, acc) ==
    IF i > Len(risk_factors) THEN acc
    ELSE LET rf == risk_factors[i]
             hit == /\ \E j \in 1..Len(da) :
                          /\ da[j].name = rf.analysis
                          /\ Get(da[j].value, rf.key, FALSE)
                    /\ ~ /\ rf.analysis = "bandwidth_analysis"
                         /\ \E j \in 1..Len(da) :
                               /\ da[j].name = "dos_detection"
                               /\ Get(da[j].value, "is_dos", FALSE)
         IN  risk_loop_dedup(da, i + 1, IF hit THEN acc + rf.weight * ProbSteps ELSE acc)

\* the for loop of _calculate_risk_score from entry i on, acc the running sum
RECURSIVE risk_loop(_, _, _)
risk_loop(da, i, acc) ==
    IF i > Len(risk_factors) THEN acc
    ELSE LET rf == risk_factors[i]
             hit == \E j \in 1..Len(da) :
                        /\ da[j].name = rf.analysis
                        /\ Get(da[j].value, rf.key, FALSE)
         IN  risk_loop(da, i + 1, IF hit THEN acc + rf.weight * ProbSteps ELSE acc)

\* risk_score just before the final min: base risk plus the flagged weights
risk_sum(da, p) == risk_loop(da, 1, base_risk(p))

\* _calculate_risk_score with the final min left out
calculate_risk_score_uncapped(da, p) == risk_sum(da, p)

\* the weights of the analyses present in the dict, flagged or not
RECURSIVE present_weight(_, _, _)
present_weight(da, i, acc) ==
    IF i > Len(risk_factors) THEN acc
    ELSE LET rf == risk_factors[i]
             here == \E j \in 1..Len(da) : da[j].name = rf.analysis
         IN  present_weight(da, i + 1, IF here THEN acc + rf.weight * ProbSteps ELSE acc)

\* _calculate_risk_score rescaling the weights of the analyses present so
\* that they sum to what all ten sum to
calculate_risk_score_rescaled(da, p) ==
    LET flagged == risk_sum(da, p) - base_risk(p)
        here == present_weight(da, 1, 0)
        all == present_weight([i \in 1..Len(risk_factors) |->
                                  [name |-> risk_factors[i].analysis, value |-> << >>]], 1, 0)
    IN  Min(base_risk(p) + (IF here = 0 THEN 0 ELSE (flagged * all) \div here), One)

\* _calculate_risk_score(detailed_analysis, attack_probability)
calculate_risk_score(da, p) == Min(risk_sum(da, p), One)

-----------------------------------------------------------------------------
(* The aggregator called on its own: every dict of analyses it can be      *)
(* handed, in either insertion order, with every primary probability.      *)

\* the analysis names the aggregator knows
AnalysisTypes == { risk_factors[i].analysis : i \in 1..Len(risk_factors) }

\* the verdict key the aggregator reads in the analysis a
KeyOf(a) == risk_factors[CHOOSE i \in 1..Len(risk_factors) : risk_factors[i].analysis = a].key

\* the order predict_comprehensive inserts the analyses in (lines 128-194)
InsertionOrder ==
    << "dos_detection", "fuzzer_detection", "port_scan_detection",
       "brute_force_detection", "reconnaissance_detection", "bandwidth_analysis",
       "tcp_behavior_analysis", "packet_size_analysis", "timing_analysis",
       "session_analysis" >>

Reverse(s) == [i \in 1..Len(s) |-> s[Len(s) + 1 - i]]

\* insertion orders the dict of analyses is drawn with
EvalOrders == { InsertionOrder, Reverse(InsertionOrder) }

\* how many analyses may be missing from the dict handed to the aggregator
MaxAbsent == 1

\* the sets of analyses the dict is drawn with
PresentSets == { P \in SUBSET AnalysisTypes : Cardinality(AnalysisTypes \ P) <= MaxAbsent }

\* the dict holding, in the given order, the analyses of P, flagged iff in F
RECURSIVE BuildAnalysis(_, _, _, _)
BuildAnalysis(order, P, F, i) ==
    IF i > Len(order) THEN << >>
    ELSE LET rest == BuildAnalysis(order, P, F, i + 1)
             a == order[i]
         IN  IF a \notin P THEN rest
             ELSE << [name |-> a, value |-> (KeyOf(a) :> (a \in F))] >> \o rest

\* the return value of a call that has not returned yet
NoScore == 0 - 1

\* self.* as __init__ leaves them before load_all_models (lines 17-22)
\* MODELS is None: prediction_api.py is not imported by the process, or its
\* load_models() did not find a file
NotImported == [loaded |-> FALSE, proba |-> << >>]

\* no dashboard module is imported by the process
NoDashboard ==
    /\ attack_type_history = << >>
    /\ app = None
    /\ stats = << >>
    /\ predictions_history = << >>
    /\ logs = << >>
    /\ worker = None

\* the caller keeps nothing of its calls / keeps the first call it makes
NotWatching == [watching |-> FALSE, seen |-> << >>]
Watching == [watching |-> TRUE, seen |-> << >>]

Constructed ==
    /\ models = << >>
    /\ scalers = {}
    /\ thresholds = << >>
    /\ feature_groups = << >>
    /\ basic_models = << >>
    /\ feature_names = << >>
    /\ pc = "constructed"
    /\ request = None
    /\ results = None

InitRisk ==
    /\ Constructed
    /\ observer = NotWatching
    /\ MODELS = NotImported
    /\ NoDashboard
    /\ disk = None
    /\ \E order \in EvalOrders, P \in PresentSets :
          \E F \in SUBSET P : detailed_analysis = BuildAnalysis(order, P, F, 1)
    /\ attack_probability \in Probs
    /\ risk_score = NoScore

\* risk_score = self._calculate_risk_score(detailed_analysis, attack_probability)
CallCalculateRiskScore ==
    /\ risk_score = NoScore
    /\ risk_score' = calculate_risk_score(detailed_analysis, attack_probability)
    /\ UNCHANGED << detailed_analysis, attack_probability >>
    /\ UNCHANGED api_vars
    /\ UNCHANGED dashboard_vars

NextRisk == CallCalculateRiskScore

SpecRisk == InitRisk /\ [][NextRisk]_vars

\* the aggregator as predict_comprehensive calls it when every detector is
\* loaded: all ten analyses present, inserted in the code's order
InitAllLoaded ==
    /\ Constructed
    /\ observer = NotWatching
    /\ MODELS = NotImported
    /\ NoDashboard
    /\ disk = None
    /\ \E F \in SUBSET AnalysisTypes :
          detailed_analysis = BuildAnalysis(InsertionOrder, AnalysisTypes, F, 1)
    /\ attack_probability \in Probs
    /\ risk_score = NoScore

SpecAllLoaded == InitAllLoaded /\ [][NextRisk]_vars

\* the analyses that need no model and are in every dict (lines 159-162,
\* 172-175 of predict_comprehensive)
AlwaysRun == { "bandwidth_analysis", "packet_size_analysis" }

\* the aggregator as predict_comprehensive calls it when some detectors, any
\* number of them, are not in self.models: their analyses are not in the dict
InitExcluded ==
    /\ Constructed
    /\ observer = NotWatching
    /\ MODELS = NotImported
    /\ NoDashboard
    /\ disk = None
    /\ \E P \in SUBSET AnalysisTypes :
          /\ AlwaysRun \subseteq P
          /\ P # AnalysisTypes
          /\ \E F \in SUBSET P :
                detailed_analysis = BuildAnalysis(InsertionOrder, P, F, 1)
    /\ attack_probability \in Probs
    /\ risk_score = NoScore

SpecExcluded == InitExcluded /\ [][NextRisk]_vars

-----------------------------------------------------------------------------
(* Persisted artifacts (what train_all_models / save_models leave on disk) *)

\* the primary classifiers of trained_models/, in the order they are loaded
BasicModelNames == << "random_forest", "decision_tree", "xgboost", "lightgbm" >>

\* the models save_models writes to advanced_models/<name>.pkl, sorted by name
ModelFiles ==
    << "anomalous_ip_detector", "attack_type_classifier", "binary_classifier",
       "brute_force_detector", "dos_detector", "fuzzer_detector",
       "port_scan_detector", "reconnaissance_detector",
       "session_hijacking_detector", "tcp_behavior_detector",
       "timing_anomaly_detector" >>

\* the scalers save_models writes to advanced_models/<name>_scaler.pkl, sorted
ScalerFiles ==
    << "anomalous_ip", "bandwidth", "brute_force", "dos", "fuzzer", "packet_size",
       "port_scan", "reconnaissance", "session", "tcp_behavior", "timing" >>

Range(s) == { s[i] : i \in 1..Len(s) }

\* file ids: a model or scaler file is a pair, so that names cannot collide
BasicFile(n) == << "trained_models", n >>
ModelFile(n) == << "advanced_models", n >>
ScalerFile(n) == << "advanced_models_scaler", n >>
FeatureNamesFile == << "trained_models", "feature_names" >>
ThresholdsFile == << "advanced_models", "thresholds" >>
FeatureGroupsFile == << "advanced_models", "feature_groups" >>

Files ==
    { BasicFile(n) : n \in Range(BasicModelNames) }
    \cup { ModelFile(n) : n \in Range(ModelFiles) }
    \cup { ScalerFile(n) : n \in Range(ScalerFiles) }
    \cup { FeatureNamesFile, ThresholdsFile, FeatureGroupsFile }

\* feature_groups as AdvancedAttackDetector.__init__ defines and saves them
TrainedFeatureGroups ==
    [ dos_features            |-> << "sload", "dload", "spkts", "dpkts", "dur", "rate" >>,
      fuzzer_features         |-> << "trans_depth", "response_body_len", "sinpkt", "dinpkt" >>,
      port_scan_features      |-> << "ct_src_dport_ltm", "ct_dst_sport_ltm", "ct_dst_ltm", "ct_src_ltm" >>,
      brute_force_features    |-> << "is_ftp_login", "ct_ftp_cmd", "ct_srv_src", "ct_srv_dst" >>,
      reconnaissance_features |-> << "ct_dst_ltm", "ct_src_ltm", "ct_dst_src_ltm" >>,
      tcp_behavior_features   |-> << "tcprtt", "synack", "ackdat", "stcpb", "dtcpb" >>,
      packet_size_features    |-> << "smean", "dmean", "sbytes", "dbytes" >>,
      timing_features         |-> << "sjit", "djit", "sinpkt", "dinpkt" >>,
      bandwidth_features      |-> << "sload", "dload", "rate" >>,
      session_features        |-> << "dur", "trans_depth", "state" >> ]

\* the thresholds table the trainer computes from its training set: the DoS
\* and Reconnaissance score percentiles (tenths) and the static bands (tenths)
TrainedThresholds ==
    [ dos             |-> 0,
      reconnaissance  |-> 0 - 2,
      high_bandwidth  |-> [ sload |-> 15, dload |-> 15, rate |-> 15 ],
      abnormal_packet |-> [ smean |-> [ min |-> 0 - 10, max |-> 10 ],
                            dmean |-> [ min |-> 0 - 10, max |-> 10 ] ] ]

\* the feature list of the data set, as stored in feature_names.pkl
TrainedFeatureNames ==
    << "sload", "dload", "spkts", "dpkts", "dur", "rate", "trans_depth",
       "response_body_len", "sinpkt", "dinpkt", "ct_src_dport_ltm",
       "ct_dst_sport_ltm", "ct_dst_ltm", "ct_src_ltm", "is_ftp_login",
       "ct_ftp_cmd", "ct_srv_src", "ct_srv_dst", "ct_dst_src_ltm", "tcprtt",
       "synack", "ackdat", "stcpb", "dtcpb", "smean", "dmean", "sbytes",
       "dbytes", "sjit", "djit", "state" >>

\* what a fitted model does with the rows it is shown: it never flags, it
\* always flags, or it flags the rows that have a positive component
Behaviours == { "quiet", "alarm", "spike" }

\* the fitted models whose behaviour is drawn (DBSCAN is refit per request)
DrawnModels ==
    { "random_forest", "dos_detector", "fuzzer_detector", "brute_force_detector",
      "reconnaissance_detector", "tcp_behavior_detector",
      "timing_anomaly_detector", "session_hijacking_detector" }

\* how many fitted models may do something else than never flag
MaxActive == 1

BehaviourMaps ==
    { b \in [DrawnModels -> Behaviours] :
        Cardinality({ n \in DrawnModels : b[n] # "quiet" }) <= MaxActive }

\* no file
NoFile == << >>

\* every fitted model never flags
AllQuiet == [n \in DrawnModels |-> "quiet"]

\* the two configuration tables
TableFiles == { ThresholdsFile, FeatureGroupsFile }

\* the artifact directories a process is started on.  With any behaviour of
\* the fitted models: everything in place, a directory missing, or one of
\* the two tables missing or unreadable.  With fitted models that never
\* flag: one model, scaler or feature-name file missing or unreadable.
Disks ==
    { [basic_dir |-> bd, advanced_dir |-> ad, bad |-> NoFile, how |-> "ok", behaviour |-> b] :
        bd \in BOOLEAN, ad \in BOOLEAN, b \in BehaviourMaps }
    \cup
    { [basic_dir |-> TRUE, advanced_dir |-> TRUE, bad |-> f, how |-> h, behaviour |-> b] :
        f \in TableFiles, h \in { "corrupt", "missing" }, b \in BehaviourMaps }
    \cup
    { [basic_dir |-> TRUE, advanced_dir |-> TRUE, bad |-> f, how |-> h, behaviour |-> AllQuiet] :
        f \in Files \ TableFiles, h \in { "corrupt", "missing" } }

\* the state of a file on the disk d
Status(d, f) == IF d.bad = f THEN d.how ELSE "ok"

\* the order Path.glob lists a directory in is the file system's
GlobOrders == { "ascending", "descending" }

Listing(names, order) == IF order = "ascending" THEN names ELSE Reverse(names)

\* the object joblib.load returns for a fitted model; fit_data holds the
\* request rows the model was refit on since, none as it comes from training
LoadedModel(d, n) ==
    [ behaviour |-> IF n \in DrawnModels THEN d.behaviour[n] ELSE "quiet",
      fit_data  |-> << >> ]

-----------------------------------------------------------------------------
(* load_all_models *)

\* lines 31-39: the dict literal is assigned only if all four loads succeed
LoadBasic(d) ==
    IF ~ d.basic_dir
    THEN [basic_models |-> << >>, feature_names |-> << >>, raised |-> FALSE]
    ELSE IF \E n \in Range(BasicModelNames) : Status(d, BasicFile(n)) # "ok"
    THEN [basic_models |-> << >>, feature_names |-> << >>, raised |-> TRUE]
    ELSE LET bm == [n \in Range(BasicModelNames) |-> LoadedModel(d, n)]
         IN  IF Status(d, FeatureNamesFile) # "ok"
             THEN [basic_models |-> bm, feature_names |-> << >>, raised |-> TRUE]
             ELSE [basic_models |-> bm, feature_names |-> TrainedFeatureNames,
                   raised |-> FALSE]

\* the for loops of lines 46-50 and 54-56 over the listed names of one kind
\* (the first component of ModelFile or ScalerFile) from i on: a file that is
\* not there is not listed, an unreadable one raises
RECURSIVE LoadListed(_, _, _, _, _)
LoadListed(d, kind, listed, i, loaded) ==
    IF i > Len(listed) THEN [loaded |-> loaded, raised |-> FALSE]
    ELSE LET st == Status(d, << kind, listed[i] >>)
         IN  IF st = "missing" THEN LoadListed(d, kind, listed, i + 1, loaded)
             ELSE IF st = "corrupt" THEN [loaded |-> loaded, raised |-> TRUE]
             ELSE LoadListed(d, kind, listed, i + 1, loaded \cup { listed[i] })

\* lines 42-62: models, then scalers, then the two tables
LoadAdvanced(d, order) ==
    LET none == [models |-> {}, scalers |-> {}, thresholds |-> << >>,
                 feature_groups |-> << >>, raised |-> FALSE]
        m  == LoadListed(d, "advanced_models", Listing(ModelFiles, order), 1, {})
        sc == LoadListed(d, "advanced_models_scaler", Listing(ScalerFiles, order), 1, {})
        th == Status(d, ThresholdsFile)
        fg == Status(d, FeatureGroupsFile)
    IN  IF ~ d.advanced_dir THEN none
        ELSE IF m.raised THEN [none EXCEPT !.models = m.loaded, !.raised = TRUE]
        ELSE IF sc.raised
        THEN [none EXCEPT !.models = m.loaded, !.scalers = sc.loaded, !.raised = TRUE]
        ELSE IF th = "corrupt"
        THEN [none EXCEPT !.models = m.loaded, !.scalers = sc.loaded, !.raised = TRUE]
        ELSE LET t == IF th = "ok" THEN TrainedThresholds ELSE << >>
             IN  IF fg = "corrupt"
                 THEN [none EXCEPT !.models = m.loaded, !.scalers = sc.loaded,
                                   !.thresholds = t, !.raised = TRUE]
                 ELSE [none EXCEPT !.models = m.loaded, !.scalers = sc.loaded,
                                   !.thresholds = t,
                                   !.feature_groups =
                                       IF fg = "ok" THEN TrainedFeatureGroups ELSE << >>]

\* load_all_models(): one try block around everything, so the first load that
\* raises ends the loading; what was assigned before stays
load_all_models(order) ==
    /\ pc = "constructed"
    /\ LET b == LoadBasic(disk)
           a == IF b.raised
                THEN [models |-> {}, scalers |-> {}, thresholds |-> << >>,
                      feature_groups |-> << >>, raised |-> TRUE]
                ELSE LoadAdvanced(disk, order)
       IN  /\ basic_models' = b.basic_models
           /\ feature_names' = b.feature_names
           /\ models' = [n \in a.models |-> LoadedModel(disk, n)]
           /\ scalers' = a.scalers
           /\ thresholds' = a.thresholds
           /\ feature_groups' = a.feature_groups
    /\ pc' = "ready"
    /\ UNCHANGED << disk, request, results, observer, MODELS >>
    /\ UNCHANGED risk_vars
    /\ UNCHANGED dashboard_vars

-----------------------------------------------------------------------------
(* Library objects and Python exceptions *)

\* the outcome of a block of code: a value, or an exception raised
Ok(v) == [raised |-> FALSE, value |-> v]
Raise == [raised |-> TRUE]

\* a feature value is a number (tenths) or something that is not a number,
\* such as the string 'abc'
Num(n) == [num |-> TRUE, v |-> n]
NotANumber == [num |-> FALSE, v |-> 0]
IsNumber(c) == c.num

\* [data.get(f, 0) for f in features]
Gather(data, features) == [i \in 1..Len(features) |-> Get(data, features[i], Num(0))]

AllNumbers(x) == \A i \in 1..Len(x) : IsNumber(x[i])

\* the mean a StandardScaler learnt from the training set (tenths)
ScalerMean == 5

\* StandardScaler.transform([x]) of a scaler fitted on n features
transform(n, x) ==
    IF Len(x) # n \/ ~ AllNumbers(x) THEN Raise
    ELSE Ok([i \in 1..Len(x) |-> Num(x[i].v - ScalerMean)])

\* does the fitted model flag the row x
Flags(model, x) ==
    CASE model.behaviour = "alarm" -> TRUE
      [] model.behaviour = "spike" -> \E i \in 1..Len(x) : x[i].v > 0
      [] OTHER -> FALSE

\* model.predict / decision_function / predict_proba check the row first
Accepts(n, x) == Len(x) = n /\ AllNumbers(x)

\* IsolationForest.decision_function(x)[0], tenths: lower is more anomalous;
\* a row with a positive component scores exactly -0.1
decision_function(model, x) ==
    CASE model.behaviour = "alarm" -> 0 - 2
      [] model.behaviour = "spike" /\ Flags(model, x) -> 0 - 1
      [] OTHER -> 1

\* OneClassSVM.predict(x)[0]: -1 for an outlier, 1 for an inlier
predict_one_class(model, x) == IF Flags(model, x) THEN 0 - 1 ELSE 1

\* RandomForestClassifier.predict(x)[0]
predict(model, x) == IF Flags(model, x) THEN 1 ELSE 0

\* RandomForestClassifier.predict_proba(x)[0][1] of a detector, hundredths
predict_proba(model, x) == IF Flags(model, x) THEN 90 ELSE 10

\* predict_proba(x)[0][1] of a primary classifier, in risk units
primary_proba(model, x) ==
    CASE model.behaviour = "alarm" -> One
      [] model.behaviour = "spike" /\ Flags(model, x) -> 100 * (ProbSteps - 1)
      [] OTHER -> 0

\* DBSCAN(eps=0.5, min_samples=5).fit_predict on the single row of a request
MinSamples == 5

\* a clusterer that keeps the row of the request before: the row joins it
fit_predict_warm(x) ==
    IF "port_scan_detector" \in DOMAIN models
       /\ models["port_scan_detector"].fit_data = << x >>
    THEN 0 ELSE 0 - 1

\* a clusterer that is not refit and places the row among the clusters of
\* the training set: a row of small values joins cluster 0
fit_predict_trained(x) == IF \A i \in 1..Len(x) : x[i].v <= 0 THEN 0 ELSE 0 - 1

fit_predict(x) == IF 1 >= MinSamples THEN 0 ELSE 0 - 1

-----------------------------------------------------------------------------
(* The per-category detectors.  Each takes the row as a dict and returns    *)
(* the outcome of its try block; the except clause is in Detect below.      *)

\* the part the seven fitted-model detectors share (lines 213-221 of
\* _detect_dos and the same lines of the others): gather, check, scale
Prepare(data, group, defaults, model_name, scaler_name) ==
    LET features == Get(feature_groups, group, defaults)
        x == Gather(data, features)
        n == Len(TrainedFeatureGroups[group])
    IN  IF ~ (model_name \in DOMAIN models /\ Len(x) = Len(features))
        THEN [run |-> FALSE, raised |-> FALSE]
        ELSE IF scaler_name \in scalers
        THEN LET t == transform(n, x)
             IN  IF t.raised THEN [run |-> TRUE, raised |-> TRUE]
                 ELSE [run |-> TRUE, raised |-> FALSE, x |-> t.value, n |-> n]
        ELSE [run |-> TRUE, raised |-> FALSE, x |-> x, n |-> n]

\* abs(score - threshold) / abs(threshold) if threshold != 0 else 0, hundredths
ScoreConfidence(score, threshold) ==
    IF threshold # 0 THEN (Abs(score - threshold) * 100) \div Abs(threshold) ELSE 0

dos_default == [is_dos |-> FALSE, anomaly_score |-> 0, confidence |-> 0]

detect_dos_try(data) ==
    LET p == Prepare(data, "dos_features", << "sload", "dload", "spkts", "dpkts" >>,
                     "dos_detector", "dos")
    IN  IF ~ p.run THEN Ok(dos_default)
        ELSE IF p.raised \/ ~ Accepts(p.n, p.x) THEN Raise
        ELSE LET score == decision_function(models["dos_detector"], p.x)
                 threshold == Get(thresholds, "dos", 0 - 1)
             IN  Ok([is_dos |-> score < threshold, anomaly_score |-> score,
                     threshold |-> threshold,
                     confidence |-> ScoreConfidence(score, threshold)])

fuzzer_default == [is_fuzzer |-> FALSE, prediction |-> 1, confidence |-> 0]

detect_fuzzer_try(data) ==
    LET p == Prepare(data, "fuzzer_features", << "trans_depth", "response_body_len" >>,
                     "fuzzer_detector", "fuzzer")
    IN  IF ~ p.run THEN Ok(fuzzer_default)
        ELSE IF p.raised \/ ~ Accepts(p.n, p.x) THEN Raise
        ELSE LET pred == predict_one_class(models["fuzzer_detector"], p.x)
             IN  Ok([is_fuzzer |-> pred = 0 - 1, prediction |-> pred,
                     confidence |-> IF pred = 0 - 1 THEN 80 ELSE 20])

port_scan_default == [is_port_scan |-> FALSE, cluster |-> 0, confidence |-> 0]

\* fit_predict refits the clusterer, so it takes a row of any length
detect_port_scan_try(data) ==
    LET p == Prepare(data, "port_scan_features", << "ct_src_dport_ltm", "ct_dst_sport_ltm" >>,
                     "port_scan_detector", "port_scan")
    IN  IF ~ p.run THEN Ok(port_scan_default)
        ELSE IF p.raised \/ ~ AllNumbers(p.x) THEN Raise
        ELSE LET pred == fit_predict(p.x)
             IN  Ok([is_port_scan |-> pred = 0 - 1, cluster |-> pred,
                     confidence |-> IF pred = 0 - 1 THEN 90 ELSE 10])

brute_force_default == [is_brute_force |-> FALSE, prediction |-> 0, confidence |-> 0]

detect_brute_force_try(data) ==
    LET p == Prepare(data, "brute_force_features", << "is_ftp_login", "ct_ftp_cmd" >>,
                     "brute_force_detector", "brute_force")
    IN  IF ~ p.run THEN Ok(brute_force_default)
        ELSE IF p.raised \/ ~ Accepts(p.n, p.x) THEN Raise
        ELSE LET pred == predict(models["brute_force_detector"], p.x)
                 prob == predict_proba(models["brute_force_detector"], p.x)
             IN  Ok([is_brute_force |-> pred # 0, prediction |-> pred,
                     confidence |-> prob])

reconnaissance_default == [is_reconnaissance |-> FALSE, anomaly_score |-> 0, confidence |-> 0]

\* the Reconnaissance detector flagging a score equal to the threshold too
detect_reconnaissance_try_inclusive(data) ==
    LET p == Prepare(data, "reconnaissance_features", << "ct_dst_ltm", "ct_src_ltm" >>,
                     "reconnaissance_detector", "reconnaissance")
    IN  IF ~ p.run THEN Ok(reconnaissance_default)
        ELSE IF p.raised \/ ~ Accepts(p.n, p.x) THEN Raise
        ELSE LET score == decision_function(models["reconnaissance_detector"], p.x)
                 threshold == Get(thresholds, "reconnaissance", 0 - 1)
             IN  Ok([is_reconnaissance |-> score <= threshold, anomaly_score |-> score,
                     threshold |-> threshold,
                     confidence |-> ScoreConfidence(score, threshold)])

detect_reconnaissance_try(data) ==
    LET p == Prepare(data, "reconnaissance_features", << "ct_dst_ltm", "ct_src_ltm" >>,
                     "reconnaissance_detector", "reconnaissance")
    IN  IF ~ p.run THEN Ok(reconnaissance_default)
        ELSE IF p.raised \/ ~ Accepts(p.n, p.x) THEN Raise
        ELSE LET score == decision_function(models["reconnaissance_detector"], p.x)
                 threshold == Get(thresholds, "reconnaissance", 0 - 1)
             IN  Ok([is_reconnaissance |-> score < threshold, anomaly_score |-> score,
                     threshold |-> threshold,
                     confidence |-> ScoreConfidence(score, threshold)])

bandwidth_default ==
    [high_bandwidth |-> FALSE, sload_high |-> FALSE, dload_high |-> FALSE,
     rate_high |-> FALSE]

analyze_bandwidth_try(data) ==
    LET th == Get(thresholds, "high_bandwidth", << >>)
        sload == Get(data, "sload", Num(0))
        dload == Get(data, "dload", Num(0))
        rate == Get(data, "rate", Num(0))
    IN  IF ~ (IsNumber(sload) /\ IsNumber(dload) /\ IsNumber(rate)) THEN Raise
        ELSE LET high_sload == sload.v > Get(th, "sload", 10)
                 high_dload == dload.v > Get(th, "dload", 10)
                 high_rate == rate.v > Get(th, "rate", 10)
             IN  Ok([high_bandwidth |-> high_sload \/ high_dload \/ high_rate,
                     sload_high |-> high_sload, dload_high |-> high_dload,
                     rate_high |-> high_rate, sload_value |-> sload.v,
                     dload_value |-> dload.v, rate_value |-> rate.v])

tcp_behavior_default == [suspicious_tcp |-> FALSE, anomaly_score |-> 0, confidence |-> 0]

analyze_tcp_behavior_try(data) ==
    LET p == Prepare(data, "tcp_behavior_features", << "tcprtt", "synack", "ackdat" >>,
                     "tcp_behavior_detector", "tcp_behavior")
    IN  IF ~ p.run THEN Ok(tcp_behavior_default)
        ELSE IF p.raised \/ ~ Accepts(p.n, p.x) THEN Raise
        ELSE LET score == decision_function(models["tcp_behavior_detector"], p.x)
             IN  Ok([suspicious_tcp |-> score < 0 - 1, anomaly_score |-> score,
                     confidence |-> IF score < 0 THEN Abs(score) * 10 ELSE 0])

packet_size_default ==
    [abnormal_packet_size |-> FALSE, smean_abnormal |-> FALSE, dmean_abnormal |-> FALSE]

analyze_packet_sizes_try(data) ==
    LET th == Get(thresholds, "abnormal_packet", << >>)
        smean == Get(data, "smean", Num(0))
        dmean == Get(data, "dmean", Num(0))
        smean_thresh == Get(th, "smean", [min |-> 0 - 20, max |-> 20])
        dmean_thresh == Get(th, "dmean", [min |-> 0 - 20, max |-> 20])
    IN  IF ~ (IsNumber(smean) /\ IsNumber(dmean)) THEN Raise
        ELSE LET abnormal_smean == smean.v < smean_thresh.min \/ smean.v > smean_thresh.max
                 abnormal_dmean == dmean.v < dmean_thresh.min \/ dmean.v > dmean_thresh.max
             IN  Ok([abnormal_packet_size |-> abnormal_smean \/ abnormal_dmean,
                     smean_abnormal |-> abnormal_smean,
                     dmean_abnormal |-> abnormal_dmean,
                     smean_value |-> smean.v, dmean_value |-> dmean.v])

timing_default == [timing_anomaly |-> FALSE, prediction |-> 1, confidence |-> 0]

analyze_timing_try(data) ==
    LET p == Prepare(data, "timing_features", << "sjit", "djit" >>,
                     "timing_anomaly_detector", "timing")
    IN  IF ~ p.run THEN Ok(timing_default)
        ELSE IF p.raised \/ ~ Accepts(p.n, p.x) THEN Raise
        ELSE LET pred == predict_one_class(models["timing_anomaly_detector"], p.x)
             IN  Ok([timing_anomaly |-> pred = 0 - 1, prediction |-> pred,
                     confidence |-> IF pred = 0 - 1 THEN 80 ELSE 20])

session_default == [session_anomaly |-> FALSE, prediction |-> 0, confidence |-> 0]

analyze_session_try(data) ==
    LET p == Prepare(data, "session_features", << "dur", "trans_depth" >>,
                     "session_hijacking_detector", "session")
    IN  IF ~ p.run THEN Ok(session_default)
        ELSE IF p.raised \/ ~ Accepts(p.n, p.x) THEN Raise
        ELSE LET pred == predict(models["session_hijacking_detector"], p.x)
                 prob == predict_proba(models["session_hijacking_detector"], p.x)
             IN  Ok([session_anomaly |-> pred # 0, prediction |-> pred,
                     confidence |-> prob])

\* the try block of the detector that fills the analysis a
TryBlock(a, data) ==
    CASE a = "dos_detection" -> detect_dos_try(data)
      [] a = "fuzzer_detection" -> detect_fuzzer_try(data)
      [] a = "port_scan_detection" -> detect_port_scan_try(data)
      [] a = "brute_force_detection" -> detect_brute_force_try(data)
      [] a = "reconnaissance_detection" -> detect_reconnaissance_try(data)
      [] a = "bandwidth_analysis" -> analyze_bandwidth_try(data)
      [] a = "tcp_behavior_analysis" -> analyze_tcp_behavior_try(data)
      [] a = "packet_size_analysis" -> analyze_packet_sizes_try(data)
      [] a = "timing_analysis" -> analyze_timing_try(data)
      [] a = "session_analysis" -> analyze_session_try(data)

\* the dict each detector returns after its except clause
DefaultVerdict(a) ==
    CASE a = "dos_detection" -> dos_default
      [] a = "fuzzer_detection" -> fuzzer_default
      [] a = "port_scan_detection" -> port_scan_default
      [] a = "brute_force_detection" -> brute_force_default
      [] a = "reconnaissance_detection" -> reconnaissance_default
      [] a = "bandwidth_analysis" -> bandwidth_default
      [] a = "tcp_behavior_analysis" -> tcp_behavior_default
      [] a = "packet_size_analysis" -> packet_size_default
      [] a = "timing_analysis" -> timing_default
      [] a = "session_analysis" -> session_default

\* a detector whose except clause is missing: its exception goes to the caller
DetectUnguarded(a, data) == TryBlock(a, data)

\* a detector as a whole: try: ... except: pass, then the default dict
Detect(a, data) ==
    LET r == TryBlock(a, data)
    IN  IF r.raised THEN Ok(DefaultVerdict(a)) ELSE r

-----------------------------------------------------------------------------
(* predict_comprehensive *)

\* the detector steps of lines 128-194 in order: the analysis filled, the
\* model that must be loaded for the step to run (None: it always runs), the
\* verdict key read and the risk factor appended when it is true
DetectorSteps ==
    << [analysis |-> "dos_detection", model |-> "dos_detector",
        key |-> "is_dos", factor |-> "DoS Attack Pattern"],
       [analysis |-> "fuzzer_detection", model |-> "fuzzer_detector",
        key |-> "is_fuzzer", factor |-> "Fuzzer Attack Pattern"],
       [analysis |-> "port_scan_detection", model |-> "port_scan_detector",
        key |-> "is_port_scan", factor |-> "Port Scan Pattern"],
       [analysis |-> "brute_force_detection", model |-> "brute_force_detector",
        key |-> "is_brute_force", factor |-> "Brute Force Pattern"],
       [analysis |-> "reconnaissance_detection", model |-> "reconnaissance_detector",
        key |-> "is_reconnaissance", factor |-> "Reconnaissance Pattern"],
       [analysis |-> "bandwidth_analysis", model |-> None,
        key |-> "high_bandwidth", factor |-> "High Bandwidth Usage"],
       [analysis |-> "tcp_behavior_analysis", model |-> "tcp_behavior_detector",
        key |-> "suspicious_tcp", factor |-> "Suspicious TCP Behavior"],
       [analysis |-> "packet_size_analysis", model |-> None,
        key |-> "abnormal_packet_size", factor |-> "Abnormal Packet Size"],
       [analysis |-> "timing_analysis", model |-> "timing_anomaly_detector",
        key |-> "timing_anomaly", factor |-> "Timing Anomaly"],
       [analysis |-> "session_analysis", model |-> "session_hijacking_detector",
        key |-> "session_anomaly", factor |-> "Session Anomaly"] >>

\* lines 128-194 from step i on; acc holds detailed_analysis and risk_factors
\* so far, and whether an exception has left the block
RECURSIVE RunDetectors(_, _, _)
RunDetectors(data, i, acc) ==
    IF i > Len(DetectorSteps) \/ acc.raised THEN acc
    ELSE LET step == DetectorSteps[i]
         IN  IF step.model # None /\ step.model \notin DOMAIN models
             THEN RunDetectors(data, i + 1, acc)
             ELSE LET r == Detect(step.analysis, data)
                  IN  IF r.raised THEN [acc EXCEPT !.raised = TRUE]
                      ELSE RunDetectors(data, i + 1,
                               [acc EXCEPT
                                  !.detailed_analysis = Put(@, step.analysis, r.value),
                                  !.risk_factors =
                                      IF r.value[step.key] THEN Append(@, step.factor)
                                      ELSE @])

\* the two recommendations _generate_recommendations has for a risk factor
Advice(factor) ==
    CASE factor = "DoS Attack Pattern" ->
           << "HIGH PRIORITY: Block source IP - DoS attack detected",
              "Monitor bandwidth usage and implement rate limiting" >>
      [] factor = "Fuzzer Attack Pattern" ->
           << "Investigate unusual transaction patterns",
              "Implement input validation and sanitization" >>
      [] factor = "Port Scan Pattern" ->
           << "Monitor for reconnaissance activities",
              "Consider blocking suspicious IP addresses" >>
      [] factor = "Brute Force Pattern" ->
           << "Implement account lockout policies",
              "Enable multi-factor authentication" >>
      [] factor = "Reconnaissance Pattern" ->
           << "Monitor network scanning activities",
              "Implement intrusion detection rules" >>
      [] factor = "High Bandwidth Usage" ->
           << "Investigate high bandwidth consumption",
              "Implement bandwidth throttling" >>
      [] factor = "Suspicious TCP Behavior" ->
           << "Analyze TCP connection patterns", "Review firewall rules" >>
      [] factor = "Abnormal Packet Size" ->
           << "Investigate unusual packet sizes", "Check for fragmentation attacks" >>
      [] factor = "Timing Anomaly" ->
           << "Analyze timing patterns for attacks", "Check for timing-based attacks" >>
      [] factor = "Session Anomaly" ->
           << "Monitor session state changes",
              "Implement session hijacking protection" >>

\* the if chain of _generate_recommendations from step i on
RECURSIVE AdviceFrom(_, _)
AdviceFrom(factors, i) ==
    IF i > Len(DetectorSteps) THEN << >>
    ELSE (IF DetectorSteps[i].factor \in Range(factors)
          THEN Advice(DetectorSteps[i].factor) ELSE << >>)
         \o AdviceFrom(factors, i + 1)

\* _generate_recommendations with one message when nothing was appended
generate_recommendations_single(da, factors) ==
    LET recommendations == AdviceFrom(factors, 1)
    IN  IF recommendations = << >>
        THEN << "No immediate security concerns detected" >>
        ELSE recommendations

\* _generate_recommendations(detailed_analysis, risk_factors)
generate_recommendations(da, factors) ==
    LET recommendations == AdviceFrom(factors, 1)
    IN  IF recommendations = << >>
        THEN << "No immediate security concerns detected",
                "Continue monitoring for anomalies" >>
        ELSE recommendations

\* dict(zip(self.feature_names, row_data))
ZipDict(names, values) ==
    [f \in { names[i] : i \in 1..Min(Len(names), Len(values)) } |->
        values[CHOOSE i \in 1..Len(names) : names[i] = f]]

\* the results dict of lines 85-93 (the timestamp is left out)
InitialResults ==
    [ primary_prediction |-> None, attack_probability |-> 0, attack_type |-> "Normal",
      detailed_analysis |-> << >>, risk_score |-> 0, recommendations |-> << >> ]

\* the row a request hands over: a dict, a list, or neither
IsDict(row_data) == row_data.type = "dict"
IsList(row_data) == row_data.type = "list"

\* lines 96-106: the array handed to the primary classifier
PrepareInput(row_data) ==
    IF IsDict(row_data) THEN Ok(Gather(row_data.items, feature_names))
    ELSE IF IsList(row_data) THEN Ok(row_data.items)
    ELSE Raise

\* a primary prediction that rejects a model name it has not loaded
PrimaryPredictionStrict(data_array, model_name) ==
    IF model_name \notin DOMAIN basic_models THEN Raise
    ELSE IF ~ Accepts(Len(TrainedFeatureNames), data_array) THEN Raise
    ELSE LET model == basic_models[model_name]
             primary_pred == predict(model, data_array)
         IN  Ok([ primary_prediction |-> primary_pred,
                  attack_probability |-> primary_proba(model, data_array),
                  attack_type |-> IF primary_pred = 1 THEN "Attack" ELSE "Normal" ])

\* lines 109-116: the fields the primary classifier sets
PrimaryPrediction(data_array, model_name) ==
    IF model_name \notin DOMAIN basic_models THEN Ok(<< >>)
    ELSE IF ~ Accepts(Len(TrainedFeatureNames), data_array) THEN Raise
    ELSE LET model == basic_models[model_name]
             primary_pred == predict(model, data_array)
             primary_prob == primary_proba(model, data_array)
         IN  Ok([ primary_prediction |-> primary_pred,
                  attack_probability |-> primary_prob,
                  attack_type |-> IF primary_pred = 1 THEN "Attack" ELSE "Normal" ])

\* lines 123-126
DataDict(row_data) ==
    IF IsList(row_data) THEN ZipDict(feature_names, row_data.items) ELSE row_data.items

\* the dict predict_comprehensive(row_data, model_name) returns
PredictResults(row_data, model_name) ==
    LET input == PrepareInput(row_data)
    IN  IF input.raised
        THEN InitialResults @@ [error |-> "Invalid input format"]
        ELSE
    LET primary == PrimaryPrediction(input.value, model_name)
    IN  IF primary.raised
        THEN InitialResults @@ [error |-> "prediction failed"]
        ELSE
    LET after_primary == primary.value @@ InitialResults
        run == RunDetectors(DataDict(row_data), 1,
                   [detailed_analysis |-> << >>, risk_factors |-> << >>,
                    raised |-> FALSE])
    IN  IF run.raised
        THEN after_primary @@ [error |-> "detector failed"]
        ELSE [ risk_score |->
                   calculate_risk_score(run.detailed_analysis,
                                        after_primary.attack_probability),
               risk_factors |-> run.risk_factors,
               detailed_analysis |-> run.detailed_analysis,
               recommendations |->
                   generate_recommendations(run.detailed_analysis, run.risk_factors) ]
             @@ after_primary

\* the row DBSCAN.fit_predict refits models['port_scan_detector'] on during
\* the call, if the call gets that far
PortScanRefit(row_data, model_name) ==
    LET input == PrepareInput(row_data)
        p == Prepare(DataDict(row_data), "port_scan_features",
                     << "ct_src_dport_ltm", "ct_dst_sport_ltm" >>,
                     "port_scan_detector", "port_scan")
    IN  IF input.raised \/ PrimaryPrediction(input.value, model_name).raised
        THEN [fit |-> FALSE]
        ELSE IF "port_scan_detector" \notin DOMAIN models THEN [fit |-> FALSE]
        ELSE IF ~ p.run \/ p.raised THEN [fit |-> FALSE]
        ELSE IF ~ AllNumbers(p.x) THEN [fit |-> FALSE]
        ELSE [fit |-> TRUE, x |-> p.x]

-----------------------------------------------------------------------------
(* Requests *)

\* a row with every feature of the data set at 0
ZeroRow == [f \in Range(TrainedFeatureNames) |-> Num(0)]

\* the dict rows requests are drawn with: no feature at all, all zeros, the
\* sload = 2.0 spike, packet sizes only, and a row whose tcprtt is not a number
DictRows ==
    { << >>,
      ZeroRow,
      [ZeroRow EXCEPT !["sload"] = Num(20)],
      [f \in { "smean", "dmean" } |-> IF f = "smean" THEN Num(0 - 30) ELSE Num(0)],
      [ZeroRow EXCEPT !["tcprtt"] = NotANumber] }

\* the list rows: one value per feature, and a list that is too short
ListRows ==
    { [i \in 1..Len(TrainedFeatureNames) |-> Num(0)],
      [i \in 1..Len(TrainedFeatureNames) |-> IF i = 1 THEN Num(20) ELSE Num(0)],
      << Num(20) >> }

\* the values of row_data: dicts, lists, and a string
RowData ==
    { [type |-> "dict", items |-> r] : r \in DictRows }
    \cup { [type |-> "list", items |-> r] : r \in ListRows }
    \cup { [type |-> "str", items |-> << >>] }

\* the values of model_name: a loaded classifier and a name that is none
ModelNames == { "random_forest", "ensemble" }

\* what a caller that keeps the first call it made has after the call that
\* is returning: the request and the dict of the first call, and whether a
\* call with other arguments has been made since
Observe ==
    IF ~ observer.watching THEN observer
    ELSE IF observer.seen = << >>
    THEN [observer EXCEPT !.seen = << [request |-> request', results |-> results',
                                       others |-> FALSE] >>]
    ELSE IF request' # observer.seen[1].request
    THEN [observer EXCEPT !.seen[1].others = TRUE]
    ELSE observer

\* results = predict_comprehensive(row_data, model_name)
predict_comprehensive(row_data, model_name) ==
    /\ pc = "ready"
    /\ request' = [row_data |-> row_data, model_name |-> model_name]
    /\ results' = PredictResults(row_data, model_name)
    /\ LET refit == PortScanRefit(row_data, model_name)
       IN  models' = IF refit.fit
                     THEN [models EXCEPT !["port_scan_detector"].fit_data = << refit.x >>]
                     ELSE models
    /\ pc' = "returned"
    /\ observer' = Observe
    /\ UNCHANGED << disk, scalers, thresholds, feature_groups, basic_models,
                    feature_names, MODELS >>
    /\ UNCHANGED risk_vars
    /\ UNCHANGED dashboard_vars

\* the caller takes the returned dict; nothing of the call is kept
TakeResults ==
    /\ pc = "returned"
    /\ pc' = "ready"
    /\ request' = None
    /\ results' = None
    /\ UNCHANGED << disk, models, scalers, thresholds, feature_groups,
                    basic_models, feature_names, observer, MODELS >>
    /\ UNCHANGED risk_vars
    /\ UNCHANGED dashboard_vars

Init ==
    /\ Constructed
    /\ observer = NotWatching
    /\ MODELS = NotImported
    /\ NoDashboard
    /\ disk \in Disks
    /\ detailed_analysis = << >>
    /\ attack_probability = 0
    /\ risk_score = NoScore

Next ==
    \/ \E order \in GlobOrders : load_all_models(order)
    \/ \E row_data \in RowData, model_name \in ModelNames :
          predict_comprehensive(row_data, model_name)
    \/ TakeResults

Spec == Init /\ [][Next]_vars

\* the fitted models all behave alike: none flags, all flag, or all flag the
\* rows with a positive component
UniformBehaviours == { [n \in DrawnModels |-> b] : b \in Behaviours }

\* a process started on complete directories (or without one of them) whose
\* caller keeps the first call it made, to compare later calls with it
InitRepeat ==
    /\ Constructed
    /\ observer = Watching
    /\ MODELS = NotImported
    /\ NoDashboard
    /\ disk \in { [basic_dir |-> bd, advanced_dir |-> ad, bad |-> NoFile,
                    how |-> "ok", behaviour |-> b] :
                      bd \in BOOLEAN, ad \in BOOLEAN, b \in UniformBehaviours }
    /\ detailed_analysis = << >>
    /\ attack_probability = 0
    /\ risk_score = NoScore

SpecRepeat == InitRepeat /\ [][Next]_vars

-----------------------------------------------------------------------------
(* Readings of an aggregator call used by the properties *)

\* the analyses present in the dict
Present(da) == { da[i].name : i \in 1..Len(da) }

\* the analyses present in the dict whose verdict flag is true
Flagged(da) == { a \in Present(da) : Get(Item(da, a), KeyOf(a), FALSE) }

\* the documented weight of each detector, in hundredths
DocWeight(a) ==
    CASE a = "dos_detection" -> 20
      [] a = "fuzzer_detection" -> 15
      [] a = "port_scan_detection" -> 15
      [] a = "brute_force_detection" -> 10
      [] a = "reconnaissance_detection" -> 10
      [] OTHER -> 5

RECURSIVE SumWeights(_)
SumWeights(S) ==
    IF S = {} THEN 0
    ELSE LET a == CHOOSE x \in S : TRUE IN DocWeight(a) * ProbSteps + SumWeights(S \ {a})

Returned == risk_score # NoScore

\* C1: for a primary probability in [0,1], any set of analyses and any
\* verdicts, the risk score returned by the aggregator lies in [0.0, 1.0].
C1_RiskScoreInUnitInterval ==
    Returned => (0 <= risk_score /\ risk_score <= One)

\* a call in which the clamp is what keeps the score at 1.0
C1_Witness ==
    /\ Returned
    /\ risk_sum(detailed_analysis, attack_probability) > One
    /\ risk_score = One

\* C2: the aggregator returns exactly min(1.0, 0.4 * primary probability +
\* the sum of the fixed weights of the analyses that are present and
\* flagged); overlapping categories both count in full, and the value is the
\* same whatever order the analyses were inserted in.
C2_RiskScoreIsClampedWeightedSum ==
    Returned =>
        risk_score = Min(One, (attack_probability * 2) \div 5
                              + SumWeights(Flagged(detailed_analysis)))

\* DoS and High Bandwidth flagged together, inserted in reverse order, and
\* both weights are in the unclamped score
C2_Witness ==
    /\ Returned
    /\ Flagged(detailed_analysis) = { "dos_detection", "bandwidth_analysis" }
    /\ detailed_analysis[1].name = "session_analysis"
    /\ attack_probability = 100
    /\ risk_score = 40 + 25 * ProbSteps

\* the sum of the weights in the risk_factors list
RECURSIVE TableWeightSum(_)
TableWeightSum(i) ==
    IF i > Len(risk_factors) THEN 0
    ELSE risk_factors[i].weight * ProbSteps + TableWeightSum(i + 1)

\* a returned call with primary probability 1 and all ten analyses flagged
AllFire ==
    /\ Returned
    /\ attack_probability = One
    /\ Flagged(detailed_analysis) = AnalysisTypes

\* C3 as stated: the weights sum to 0.6, so with primary probability 1 and
\* every detector flagged the unclamped sum is exactly 1.0.
C3_Original ==
    AllFire =>
        /\ TableWeightSum(1) = 60 * ProbSteps
        /\ risk_sum(detailed_analysis, attack_probability) = One

\* C3 amended: the weights sum to 0.95, so with primary probability 1 and
\* every detector flagged the unclamped sum is 1.35, above 1.0, and only the
\* final min brings the returned score to 1.0.
C3_WeightsSumAndUnclampedTotal ==
    AllFire =>
        /\ TableWeightSum(1) = 95 * ProbSteps
        /\ risk_sum(detailed_analysis, attack_probability) = 135 * ProbSteps
        /\ risk_sum(detailed_analysis, attack_probability) > One
        /\ risk_score = One

\* every detector fires on probability 1, analyses in the code's order
C3_Witness ==
    /\ AllFire
    /\ detailed_analysis[1].name = "dos_detection"

\* C4: with primary probability 1 and every weighted detector present and
\* flagged, the returned risk score is exactly 1.0.
C4_AllFireGivesOne ==
    (/\ Returned
     /\ attack_probability = One
     /\ \A a \in AnalysisTypes : a \in Flagged(detailed_analysis))
        => risk_score = One

\* every detector fires on probability 1, analyses in reverse order
C4_Witness ==
    /\ AllFire
    /\ detailed_analysis[1].name = "session_analysis"
    /\ risk_score = One

\* the dict da with the verdict flags set to exactly the analyses of F
RECURSIVE WithFlagsFrom(_, _, _)
WithFlagsFrom(da, F, i) ==
    IF i > Len(da) THEN << >>
    ELSE << [name |-> da[i].name,
             value |-> [k \in DOMAIN da[i].value |-> da[i].name \in F]] >>
         \o WithFlagsFrom(da, F, i + 1)

WithFlags(da, F) == WithFlagsFrom(da, F, 1)

\* C5: with the primary probability and every other verdict fixed, flipping
\* one verdict from false to true never decreases the returned risk score.
C5_SingleFlipMonotone ==
    Returned =>
        \A a \in Present(detailed_analysis) \ Flagged(detailed_analysis) :
            calculate_risk_score(
                WithFlags(detailed_analysis, Flagged(detailed_analysis) \cup {a}),
                attack_probability) >= risk_score

\* a flip that raises the score, and on the same call a flip the clamp absorbs
C5_Witness ==
    /\ Returned
    /\ risk_score = One - 5 * ProbSteps
    /\ \E a, b \in Present(detailed_analysis) \ Flagged(detailed_analysis) :
          /\ calculate_risk_score(
                WithFlags(detailed_analysis, Flagged(detailed_analysis) \cup {a}),
                attack_probability) = One
          /\ risk_sum(
                WithFlags(detailed_analysis, Flagged(detailed_analysis) \cup {b}),
                attack_probability) > One

\* C6 as stated: of two assessments with the same primary probability, the
\* one with more triggered risk factors never has the lower risk score.
C6_Original ==
    Returned =>
        \A F2 \in SUBSET Present(detailed_analysis) :
            Cardinality(F2) > Cardinality(Flagged(detailed_analysis)) =>
                calculate_risk_score(WithFlags(detailed_analysis, F2),
                                     attack_probability) >= risk_score

\* C6 amended: of two assessments with the same primary probability, the one
\* whose triggered risk factors include all those of the other never has the
\* lower risk score.
C6_SupersetMonotone ==
    Returned =>
        \A F1 \in { Flagged(detailed_analysis) } :
            \A G \in SUBSET (Present(detailed_analysis) \ F1) :
                calculate_risk_score(WithFlags(detailed_analysis, F1 \cup G),
                                     attack_probability) >= risk_score

\* one heavy factor against two light ones: more factors, lower score, and a
\* superset of the heavy factor that scores higher
C6_Witness ==
    /\ Returned
    /\ Flagged(detailed_analysis) = { "dos_detection" }
    /\ calculate_risk_score(
          WithFlags(detailed_analysis, { "timing_analysis", "session_analysis" }),
          attack_probability) < risk_score
    /\ calculate_risk_score(
          WithFlags(detailed_analysis,
                    { "dos_detection", "timing_analysis", "session_analysis" }),
          attack_probability) > risk_score

-----------------------------------------------------------------------------
(* Readings of a predict_comprehensive call used by the properties *)

\* a call has returned and its row was a dict or a list
RowAccepted ==
    /\ pc = "returned"
    /\ ~ PrepareInput(request.row_data).raised

\* a call has returned that got as far as the detectors
ReachedDetectors ==
    /\ RowAccepted
    /\ ~ PrimaryPrediction(PrepareInput(request.row_data).value,
                           request.model_name).raised

\* the dict the detectors of the returned call were handed
RequestDict == DataDict(request.row_data)

\* the features each detector reads from the row
RequiredFeatures(a) ==
    CASE a = "dos_detection" ->
           Range(Get(feature_groups, "dos_features", << "sload", "dload", "spkts", "dpkts" >>))
      [] a = "fuzzer_detection" ->
           Range(Get(feature_groups, "fuzzer_features", << "trans_depth", "response_body_len" >>))
      [] a = "port_scan_detection" ->
           Range(Get(feature_groups, "port_scan_features",
                     << "ct_src_dport_ltm", "ct_dst_sport_ltm" >>))
      [] a = "brute_force_detection" ->
           Range(Get(feature_groups, "brute_force_features", << "is_ftp_login", "ct_ftp_cmd" >>))
      [] a = "reconnaissance_detection" ->
           Range(Get(feature_groups, "reconnaissance_features", << "ct_dst_ltm", "ct_src_ltm" >>))
      [] a = "bandwidth_analysis" -> { "sload", "dload", "rate" }
      [] a = "tcp_behavior_analysis" ->
           Range(Get(feature_groups, "tcp_behavior_features", << "tcprtt", "synack", "ackdat" >>))
      [] a = "packet_size_analysis" -> { "smean", "dmean" }
      [] a = "timing_analysis" ->
           Range(Get(feature_groups, "timing_features", << "sjit", "djit" >>))
      [] a = "session_analysis" ->
           Range(Get(feature_groups, "session_features", << "dur", "trans_depth" >>))

\* the row of the returned call has none of the features the detector reads
GroupAbsent(a) == RequiredFeatures(a) \cap DOMAIN RequestDict = {}

\* the detector steps that run in the current object: model loaded, or none needed
StepsRun ==
    { i \in 1..Len(DetectorSteps) :
        DetectorSteps[i].model = None \/ DetectorSteps[i].model \in DOMAIN models }

\* C7 as stated: a detector of any kind whose required features are all
\* absent from the row returns a not-applicable verdict (flag false,
\* confidence 0), does not raise into the call, and adds nothing to the risk
\* score, which stays the clamped sum over the other flagged detectors.
C7_Original ==
    ReachedDetectors =>
        /\ "error" \notin DOMAIN results
        /\ \A i \in StepsRun :
              LET a == DetectorSteps[i].analysis
              IN  GroupAbsent(a) =>
                     /\ Has(results.detailed_analysis, a)
                     /\ ~ Item(results.detailed_analysis, a)[DetectorSteps[i].key]
                     /\ Get(Item(results.detailed_analysis, a), "confidence", 0) = 0
        /\ results.risk_score =
              Min(One, (results.attack_probability * 2) \div 5
                       + SumWeights({ a \in Flagged(results.detailed_analysis) :
                                         ~ GroupAbsent(a) }))

\* the detector of the analysis a raised inside its try block in the
\* returned call
RaisedInside(a) == TryBlock(a, RequestDict).raised

OneBadFile == disk.bad # NoFile

\* C9 as stated: when loading one artifact fails at startup only that one is
\* omitted; every other detector, every scaler, both tables and the primary
\* classifiers are loaded.
C9_Original ==
    (pc # "constructed" /\ OneBadFile) =>
        /\ \A n \in Range(ModelFiles) : ModelFile(n) # disk.bad => n \in DOMAIN models
        /\ \A n \in Range(ScalerFiles) : ScalerFile(n) # disk.bad => n \in scalers
        /\ ThresholdsFile # disk.bad => thresholds = TrainedThresholds
        /\ FeatureGroupsFile # disk.bad => feature_groups = TrainedFeatureGroups
        /\ \A n \in Range(BasicModelNames) :
              BasicFile(n) # disk.bad => n \in DOMAIN basic_models
        /\ FeatureNamesFile # disk.bad => feature_names = TrainedFeatureNames

\* C10 as stated: a row that is neither a mapping nor a sequence makes the
\* call fail with the invalid-input error, and no risk_score, attack_type or
\* recommendations are reported for the request.
C10_Original ==
    (pc = "returned" /\ ~ IsDict(request.row_data) /\ ~ IsList(request.row_data)) =>
        /\ "error" \in DOMAIN results
        /\ results["error"] = "Invalid input format"
        /\ "risk_score" \notin DOMAIN results
        /\ "attack_type" \notin DOMAIN results
        /\ "recommendations" \notin DOMAIN results

-----------------------------------------------------------------------------
(* Repeated calls *)

\* the call that has returned repeats the arguments of the first call
RepeatsFirstCall ==
    /\ pc = "returned"
    /\ observer.watching
    /\ observer.seen # << >>
    /\ request = observer.seen[1].request

\* the dicts a and b agree on the key k: both lack it or both have it with
\* the same value
SameField(a, b, k) ==
    /\ (k \in DOMAIN a) = (k \in DOMAIN b)
    /\ k \in DOMAIN a => a[k] = b[k]

\* C11: a call with the row and the model name of an earlier call on the
\* same loaded object yields the same risk_score, risk_factors and
\* per-detector verdicts as that call did, whatever calls were made in
\* between.
C11_RepeatedCallSameAssessment ==
    RepeatsFirstCall =>
        \A k \in { "risk_score", "risk_factors", "detailed_analysis",
                   "primary_prediction", "attack_probability", "error" } :
            SameField(results, observer.seen[1].results, k)

\* the first call is repeated after a call with other arguments that refit
\* the port scan clusterer on another row, and the port scan is flagged
C11_Witness ==
    /\ RepeatsFirstCall
    /\ observer.seen[1].others
    /\ "risk_factors" \in DOMAIN results
    /\ "Port Scan Pattern" \in Range(results.risk_factors)
    /\ request.row_data.type = "dict"
    /\ "port_scan_detector" \in DOMAIN models
    /\ models["port_scan_detector"].fit_data # << >>
    /\ results.risk_score > 15 * ProbSteps

\* C12 as stated: a prediction only reads the shared objects: every call of
\* predict_comprehensive leaves models, scalers, thresholds and
\* feature_groups exactly as they were loaded at startup.
C12_Original ==
    [][pc = "ready" /\ pc' = "returned" =>
          UNCHANGED << models, scalers, thresholds, feature_groups >>]_vars

-----------------------------------------------------------------------------
(* Excluded detectors *)

\* the analyses of detectors that were not loaded
Excluded == AnalysisTypes \ Present(detailed_analysis)

\* the largest sum the aggregator can form from the analyses in the dict
Ceiling == 40 * ProbSteps + SumWeights(Present(detailed_analysis))

\* C13 as stated: with at least one detector excluded at startup, the risk
\* score stays strictly below 1.0 for every primary probability and every
\* combination of verdicts.
C13_Original ==
    (Returned /\ Excluded # {}) => risk_score < One

\* C13: with detectors excluded at startup the aggregator sums the weights
\* of the remaining flagged detectors without rescaling, so the score never
\* exceeds min(1.0, 0.4 + the remaining weights) and reaches it when p = 1
\* and every remaining detector is flagged; this is strictly below 1.0
\* exactly when the excluded weights sum to more than 0.35.
C13_ExcludedCeiling ==
    (Returned /\ Excluded # {}) =>
        /\ risk_score = Min(One, base_risk(attack_probability)
                                 + SumWeights(Flagged(detailed_analysis)))
        /\ risk_score <= Min(One, Ceiling)
        /\ (attack_probability = One
            /\ Flagged(detailed_analysis) = Present(detailed_analysis))
              => risk_score = Min(One, Ceiling)
        /\ SumWeights(Excluded) > 35 * ProbSteps => risk_score < One
        /\ (SumWeights(Excluded) <= 35 * ProbSteps
            /\ attack_probability = One
            /\ Flagged(detailed_analysis) = Present(detailed_analysis))
              => risk_score = One

\* the DoS, Fuzzer and Port Scan detectors (weights 0.2, 0.15, 0.15) are
\* excluded, p = 1 and the seven remaining analyses are all flagged: 0.85
C13_Witness ==
    /\ Returned
    /\ Excluded = { "dos_detection", "fuzzer_detection", "port_scan_detection" }
    /\ Flagged(detailed_analysis) = Present(detailed_analysis)
    /\ attack_probability = One
    /\ risk_score = 85 * ProbSteps

-----------------------------------------------------------------------------
(* The quiet assessment *)

\* a call has returned a complete assessment in which the primary
\* probability is 0 and no detector verdict is true
NothingFlagged ==
    /\ ReachedDetectors
    /\ "risk_factors" \in DOMAIN results
    /\ results.attack_probability = 0
    /\ Flagged(results.detailed_analysis) = {}

ZeroRowFlagged ==
    /\ ReachedDetectors
    /\ request.row_data = [type |-> "dict", items |-> ZeroRow]
    /\ "port_scan_detector" \in DOMAIN models
    /\ results.risk_factors = << "Port Scan Pattern" >>
    /\ results.risk_score = 15 * ProbSteps

-----------------------------------------------------------------------------
(* Feature group lookup *)

\* the feature group each fitted-model detector looks up
GroupOf(a) ==
    CASE a = "dos_detection" -> "dos_features"
      [] a = "fuzzer_detection" -> "fuzzer_features"
      [] a = "port_scan_detection" -> "port_scan_features"
      [] a = "brute_force_detection" -> "brute_force_features"
      [] a = "reconnaissance_detection" -> "reconnaissance_features"
      [] a = "tcp_behavior_analysis" -> "tcp_behavior_features"
      [] a = "timing_analysis" -> "timing_features"
      [] a = "session_analysis" -> "session_features"

\* the steps of the returned call that ran a detector with a fitted model
ModelStepsRun == { i \in StepsRun : DetectorSteps[i].model # None }

\* C15 as stated: looking up a feature group that is not in feature_groups
\* fails with an unknown-group error, and a detector is only ever evaluated
\* on the feature list registered for it at training.
C15_Original ==
    ReachedDetectors =>
        \A i \in ModelStepsRun :
            LET a == DetectorSteps[i].analysis
            IN  /\ GroupOf(a) \notin DOMAIN feature_groups => "error" \in DOMAIN results
                /\ ~ RaisedInside(a) =>
                      RequiredFeatures(a) = Range(TrainedFeatureGroups[GroupOf(a)])

\* a detector was evaluated, without raising, on the fallback list of a group
\* that is not in feature_groups, and flagged the row
FallbackListEvaluated ==
    /\ ReachedDetectors
    /\ feature_groups = << >>
    /\ "port_scan_detector" \in DOMAIN models
    /\ ~ RaisedInside("port_scan_detection")
    /\ "error" \notin DOMAIN results
    /\ "Port Scan Pattern" \in Range(results.risk_factors)

-----------------------------------------------------------------------------
(* Anomaly-score detectors *)

\* the detectors that compare an IsolationForest score with a cutoff, with
\* their key in the thresholds table
ScoreDetectors ==
    [ dos_detection |-> "dos", reconnaissance_detection |-> "reconnaissance",
      tcp_behavior_analysis |-> "tcp_behavior" ]

\* the score detectors that were evaluated, without raising, in the call
\* that has returned
ScoresEvaluated ==
    { a \in DOMAIN ScoreDetectors :
        /\ \E i \in StepsRun : DetectorSteps[i].analysis = a
        /\ ~ RaisedInside(a) }

\* C16 as stated: each of the DoS, Reconnaissance and TCP-behavior verdicts
\* is flagged iff score < threshold, the threshold being the detector's own
\* entry of the loaded thresholds table.
C16_Original ==
    ReachedDetectors =>
        \A a \in ScoresEvaluated :
            LET v == Item(results.detailed_analysis, a)
            IN  /\ ScoreDetectors[a] \in DOMAIN thresholds
                /\ v[KeyOf(a)] = (v.anomaly_score < thresholds[ScoreDetectors[a]])

\* the cutoff each score detector compares with, in tenths
CutoffUsed(a) ==
    IF a = "tcp_behavior_analysis" THEN 0 - 1
    ELSE Get(thresholds, ScoreDetectors[a], 0 - 1)

\* C16: each of the DoS, Reconnaissance and TCP-behavior verdicts is flagged
\* iff score < cutoff, strictly.  For DoS and Reconnaissance the cutoff is
\* the detector's entry of the loaded thresholds table, or -0.1 when the
\* table has none; for TCP-behavior it is always the constant -0.1.
C16_StrictlyBelowCutoff ==
    ReachedDetectors =>
        \A a \in ScoresEvaluated :
            LET v == Item(results.detailed_analysis, a)
            IN  /\ v[KeyOf(a)] = (v.anomaly_score < CutoffUsed(a))
                /\ a # "tcp_behavior_analysis" => v.threshold = CutoffUsed(a)
                /\ a = "tcp_behavior_analysis" => "threshold" \notin DOMAIN v

\* the Reconnaissance score equals its trained cutoff and is not flagged,
\* while the TCP score is above -0.1 and the table has no TCP entry
C16_Witness ==
    /\ ReachedDetectors
    /\ ScoresEvaluated = DOMAIN ScoreDetectors
    /\ "reconnaissance" \in DOMAIN thresholds
    /\ "tcp_behavior" \notin DOMAIN thresholds
    /\ Item(results.detailed_analysis, "reconnaissance_detection").anomaly_score
          = thresholds["reconnaissance"]
    /\ ~ Item(results.detailed_analysis, "reconnaissance_detection").is_reconnaissance
    /\ ~ Item(results.detailed_analysis, "tcp_behavior_analysis").suspicious_tcp

\* the TCP score is below -0.1 and flagged
TcpFlagged ==
    /\ ReachedDetectors
    /\ "tcp_behavior_analysis" \in ScoresEvaluated
    /\ Item(results.detailed_analysis, "tcp_behavior_analysis").anomaly_score < 0 - 1
    /\ Item(results.detailed_analysis, "tcp_behavior_analysis").suspicious_tcp

-----------------------------------------------------------------------------
(* prediction_api.py: predict_single_row *)

\* MODELS after load_models(): None, or the four classifiers, each held as
\* the attack probability its predict_proba gives the row of the request
LoadedMODELS ==
    { NotImported }
    \cup { [loaded |-> TRUE, proba |-> p] : p \in [Range(BasicModelNames) -> Probs] }

\* model.predict(data)[0] of a classifier whose predict_proba(data)[0][1] is
\* p: the class with the larger probability, class 0 when they are equal
member_predict(p) == IF 2 * p > One THEN 1 ELSE 0

RECURSIVE Sum(_)
Sum(values) == IF values = << >> THEN 0 ELSE Head(values) + Sum(Tail(values))

\* np.mean(probabilities): exact here, the probabilities being multiples of
\* 100 units and the members four
mean(values) == Sum(values) \div Len(values)

\* the label with a tie of the votes counted as an attack
ensemble_label_tie_up(predictions, probabilities) ==
    IF 2 * Sum(predictions) >= Len(predictions) THEN 1 ELSE 0

\* the label taken from the averaged probability
ensemble_label_from_mean(predictions, probabilities) ==
    IF 2 * mean(probabilities) > One THEN 1 ELSE 0

\* line 109: int(np.mean(predictions) > 0.5)
ensemble_label(predictions, probabilities) ==
    IF 2 * Sum(predictions) > Len(predictions) THEN 1 ELSE 0

\* the confidence of the surer of the two classes
single_confidence_folded(p) == IF p > One - p THEN p ELSE One - p

\* line 118: confidence = model.predict_proba(data)[0][1]
single_confidence(p) == p

\* the dict of the three early returns (lines 62-67, 70-75, 89-94)
ErrorResult(message) ==
    [error |-> message, prediction |-> None, confidence |-> None,
     interpretation |-> None]

\* the values of row_data: a dict, a list of one value per feature, a list
\* that is too short, a string
SingleRows == { "dict", "list", "short_list", "str" }

\* the values of model_name: the loaded names, 'ensemble', and another
SingleModelNames == Range(BasicModelNames) \cup { "ensemble", "svm" }

\* what predict_single_row(row_data, model_name) returns or raises when the
\* module-level MODELS are M
PredictWith(M, row_data, model_name) ==
    IF ~ M.loaded
    THEN ErrorResult("Models not loaded. Please train models first.")
    ELSE IF model_name \notin DOMAIN M.proba /\ model_name # "ensemble"
    THEN ErrorResult("Invalid model name.")
    ELSE IF row_data = "str"
    THEN ErrorResult("Invalid input format. Provide dict or list.")
    ELSE IF row_data = "short_list"
    THEN [exception |-> "ValueError"]
    ELSE IF model_name = "ensemble"
    THEN LET probabilities ==
                 [i \in 1..Len(BasicModelNames) |-> M.proba[BasicModelNames[i]]]
             predictions ==
                 [i \in 1..Len(BasicModelNames) |-> member_predict(probabilities[i])]
             prediction == ensemble_label(predictions, probabilities)
         IN  [prediction |-> prediction,
              confidence |-> mean(probabilities),
              interpretation |-> IF prediction = 1 THEN "Attack" ELSE "Normal",
              model_used |-> model_name]
    ELSE LET prediction == member_predict(M.proba[model_name])
         IN  [prediction |-> prediction,
              confidence |-> single_confidence(M.proba[model_name]),
              interpretation |-> IF prediction = 1 THEN "Attack" ELSE "Normal",
              model_used |-> model_name]

\* what predict_single_row(row_data, model_name) returns or raises
PredictSingleRow(row_data, model_name) == PredictWith(MODELS, row_data, model_name)

\* results = predict_single_row(row_data, model_name)
predict_single_row(row_data, model_name) ==
    /\ pc = "imported"
    /\ request' = [row_data |-> row_data, model_name |-> model_name]
    /\ results' = PredictSingleRow(row_data, model_name)
    /\ pc' = "answered"
    /\ UNCHANGED << disk, models, scalers, thresholds, feature_groups,
                    basic_models, feature_names, observer, MODELS >>
    /\ UNCHANGED risk_vars
    /\ UNCHANGED dashboard_vars

\* the caller takes the answer; the module keeps nothing of the call
TakeAnswer ==
    /\ pc = "answered"
    /\ pc' = "imported"
    /\ request' = None
    /\ results' = None
    /\ UNCHANGED << disk, models, scalers, thresholds, feature_groups,
                    basic_models, feature_names, observer, MODELS >>
    /\ UNCHANGED risk_vars
    /\ UNCHANGED dashboard_vars

\* a process that has imported prediction_api: lines 16-35 have run
InitSingle ==
    /\ MODELS \in LoadedMODELS
    /\ NoDashboard
    /\ pc = "imported"
    /\ request = None
    /\ results = None
    /\ disk = None
    /\ models = << >>
    /\ scalers = {}
    /\ thresholds = << >>
    /\ feature_groups = << >>
    /\ basic_models = << >>
    /\ feature_names = << >>
    /\ observer = NotWatching
    /\ detailed_analysis = << >>
    /\ attack_probability = 0
    /\ risk_score = NoScore

NextSingle ==
    \/ \E row_data \in SingleRows, model_name \in SingleModelNames :
          predict_single_row(row_data, model_name)
    \/ TakeAnswer

SpecSingle == InitSingle /\ [][NextSingle]_vars

\* predict_single_row has returned a prediction of the ensemble
EnsembleAnswered ==
    /\ pc = "answered"
    /\ request.model_name = "ensemble"
    /\ "model_used" \in DOMAIN results

\* predict_single_row has returned a prediction of one loaded classifier
SingleAnswered ==
    /\ pc = "answered"
    /\ request.model_name # "ensemble"
    /\ "model_used" \in DOMAIN results

\* the number of member models whose own label is 1
Votes == Cardinality({ n \in DOMAIN MODELS.proba : member_predict(MODELS.proba[n]) = 1 })

\* the sum of the members' attack probabilities
RECURSIVE ProbaSum(_)
ProbaSum(S) ==
    IF S = {} THEN 0
    ELSE LET n == CHOOSE x \in S : TRUE IN MODELS.proba[n] + ProbaSum(S \ {n})

\* C17: with model_name 'ensemble' the returned label is the majority vote
\* of the members' labels: 1 iff strictly more than half of the members
\* predict 1, so 2 of 4 gives 0; and the returned probability is the
\* arithmetic mean of the members' attack probabilities.
C17_MajorityVoteAndMeanProbability ==
    EnsembleAnswered =>
        /\ results.prediction = (IF 2 * Votes > Cardinality(DOMAIN MODELS.proba) THEN 1 ELSE 0)
        /\ results.confidence * Cardinality(DOMAIN MODELS.proba)
              = ProbaSum(DOMAIN MODELS.proba)
        /\ results.interpretation = (IF results.prediction = 1 THEN "Attack" ELSE "Normal")

\* two members of four say attack with probability 1, two say normal with
\* probability 0: the label is 0 and the probability a half
C17_Witness ==
    /\ EnsembleAnswered
    /\ Votes = 2
    /\ Cardinality(DOMAIN MODELS.proba) = 4
    /\ results.prediction = 0
    /\ 2 * results.confidence = One

\* C18 as stated: with model_name 'ensemble' the label is 1 iff the mean of
\* the member probabilities is above 0.5, and 0 at exactly 0.5.
C18_Original ==
    EnsembleAnswered => (results.prediction = 1 <=> 2 * results.confidence > One)

\* C18: with model_name 'ensemble' the label is 1 iff the mean of the member
\* labels is above 0.5, and 0 at exactly 0.5; it agrees with the returned
\* mean probability when the members are unanimous, and need not otherwise.
C18_LabelFollowsVotesNotMean ==
    EnsembleAnswered =>
        /\ results.prediction = 1 <=> 2 * Votes > Cardinality(DOMAIN MODELS.proba)
        /\ 2 * Votes = Cardinality(DOMAIN MODELS.proba) => results.prediction = 0
        /\ Votes = Cardinality(DOMAIN MODELS.proba) => 2 * results.confidence > One
        /\ Votes = 0 => 2 * results.confidence <= One

\* the votes are tied, so the label is 0, while the mean probability is
\* above 0.5
C18_Witness ==
    /\ EnsembleAnswered
    /\ 2 * Votes = Cardinality(DOMAIN MODELS.proba)
    /\ results.prediction = 0
    /\ 2 * results.confidence > One

\* C19 as stated: for a single classifier with attack probability p the
\* reported confidence is max(p, 1 - p), hence at least 0.5.
C19_Original ==
    SingleAnswered =>
        /\ results.confidence =
              (IF MODELS.proba[request.model_name] > One - MODELS.proba[request.model_name]
               THEN MODELS.proba[request.model_name]
               ELSE One - MODELS.proba[request.model_name])
        /\ 2 * results.confidence >= One

\* C19: for a single classifier with attack probability p the confidence
\* reported by predict_single_row is p itself, so it is at least 0.5 when
\* the label is 1 and at most 0.5 when the label is 0.
C19_ConfidenceIsAttackProbability ==
    SingleAnswered =>
        /\ results.confidence = MODELS.proba[request.model_name]
        /\ results.prediction = 1 => 2 * results.confidence > One
        /\ results.prediction = 0 => 2 * results.confidence <= One

\* a row the random forest gives attack probability 0: label 0, confidence 0
C19_Witness ==
    /\ SingleAnswered
    /\ request.model_name = "random_forest"
    /\ request.row_data = "dict"
    /\ results.prediction = 0
    /\ results.confidence = 0

-----------------------------------------------------------------------------
(* The dashboards' attack-type heuristic:
   clean_dashboard.py, enhanced_live_dashboard.py and fixed_dashboard.py
   define the same detect_attack_types(data); complete_dashboard.py defines
   detect_all_attack_types(data).  Feature values and cutoffs are in tenths. *)

\* the dashboards whose module defines detect_attack_types
SameHeuristic == {"clean_dashboard", "enhanced_live_dashboard",
                  "fixed_dashboard"}

\* every feature a rule of either heuristic reads with data.get(name, 0)
HeuristicFeatures ==
    {"sload", "dload", "spkts", "dpkts", "trans_depth", "response_body_len",
     "ct_src_dport_ltm", "ct_dst_sport_ltm", "is_ftp_login", "ct_ftp_cmd",
     "ct_dst_ltm", "is_sm_ips_ports", "tcprtt", "synack", "ackdat", "stcpb",
     "dtcpb", "smean", "dmean", "state", "dur", "sjit", "djit",
     "ct_srv_src", "ct_srv_dst", "ct_dst_src_ltm", "ct_src_ltm", "sinpkt",
     "dinpkt"}

\* number of features besides sload that a row carries
MaxOthers == 1

\* values of sload: -2.0, 0, 1.2, 2.0 and 60000.0
SloadValues == {0 - 20, 0, 12, 20, 600000}

\* values of the other features a row carries: -2.0, 0, 1.2 and 60000.0
OtherValues == {0 - 20, 0, 12, 600000}

\* the row with one more key
WithFeature(row, f, value) ==
    [g \in DOMAIN row \cup {f} |-> IF g = f THEN value ELSE row[g]]

\* the rows holding sload and at most n other features
RECURSIVE RowsWith(_)
RowsWith(n) ==
    IF n = 0
    THEN { [f \in {"sload"} |-> sl] : sl \in SloadValues }
    ELSE RowsWith(n - 1)
           \cup UNION { { WithFeature(row, f, value) :
                            f \in HeuristicFeatures \ DOMAIN row,
                            value \in OtherValues } :
                        row \in RowsWith(n - 1) }

\* the rows: dicts holding sload and at most MaxOthers other features
HeuristicRows == RowsWith(MaxOthers)

\* if cond: attack_types.append(name)
Rule(cond, name) == IF cond THEN << name >> ELSE << >>

\* detect_attack_types(data) of clean, enhanced_live and fixed dashboards:
\* every value is read through abs(), so the two rules that ask for a value
\* below a negative cutoff never fire
DetectAttackTypes(data) ==
    LET a(f) == Abs(Get(data, f, 0))
    IN  Rule(a("sload") > 15 \/ a("dload") > 15 \/ a("spkts") > 15
               \/ a("dpkts") > 15, "DoS")
        \o Rule(a("trans_depth") > 15 \/ a("response_body_len") < 0 - 15,
                "Fuzzer")
        \o Rule(a("ct_src_dport_ltm") > 15 \/ a("ct_dst_sport_ltm") > 15,
                "Port_Scan")
        \o Rule(a("is_ftp_login") > 5 /\ a("ct_ftp_cmd") > 5, "Brute_Force")
        \o Rule(a("ct_dst_ltm") > 15, "Reconnaissance")
        \o Rule(a("is_sm_ips_ports") > 15, "Anomalous_IP")
        \o Rule(a("sload") > 10 \/ a("dload") > 10, "High_Bandwidth")
        \o Rule(a("tcprtt") > 10 \/ a("synack") > 10 \/ a("ackdat") > 10,
                "Suspicious_TCP")
        \o Rule(a("stcpb") > 15 \/ a("dtcpb") > 15, "Replay_Attack")
        \o Rule(a("smean") > 15 \/ a("dmean") > 15, "Abnormal_Packet")
        \o Rule(a("state") > 10 /\ a("dur") < 0 - 10, "Session_Hijacking")
        \o Rule(a("sjit") > 10 \/ a("djit") > 10, "Jitter_Anomaly")
        \o Rule(a("dur") > 10 /\ a("trans_depth") > 10, "Slowloris")
        \o Rule(a("ct_srv_src") > 10 \/ a("ct_srv_dst") > 10,
                "Service_Abuse")
        \o Rule(a("ct_dst_src_ltm") > 10 /\ a("ct_src_ltm") > 10,
                "Traffic_Correlation")
        \o Rule(a("sload") > 10 /\ a("dload") > 10 /\ a("dur") > 10,
                "Worm_Spread")
        \o Rule(a("sinpkt") > 10 \/ a("dinpkt") > 10, "Timing_Attack")

\* the list detect_all_attack_types(data) of complete_dashboard returns:
\* signed values against cutoffs in raw units, abs() in two rules only
DetectAllAttackTypes(data) ==
    LET v(f) == Get(data, f, 0)
    IN  Rule(v("sload") > 500000 \/ v("dload") > 500000
               \/ v("spkts") > 100000 \/ v("dpkts") > 100000, "DoS")
        \o Rule(v("ct_src_dport_ltm") > 300 \/ v("ct_dst_sport_ltm") > 300,
                "PortScan")
        \o Rule(v("is_ftp_login") > 0 /\ v("ct_ftp_cmd") > 50, "BruteForce")
        \o Rule(v("trans_depth") > 150 \/ v("response_body_len") < 0 - 100,
                "Fuzzer")
        \o Rule(v("ct_dst_ltm") > 500, "Recon")
        \o Rule(v("is_sm_ips_ports") > 100, "AnomalousIP")
        \o Rule(v("tcprtt") > 10000 \/ v("synack") > 5000
                  \/ v("ackdat") > 5000, "SuspiciousTCP")
        \o Rule(Abs(v("stcpb")) > 500000 /\ Abs(v("dtcpb")) > 500000,
                "Replay")
        \o Rule(Abs(v("smean")) > 100000 \/ Abs(v("dmean")) > 100000,
                "AbnormalPacket")
        \o Rule(v("state") > 50 /\ v("dur") < 0 - 50, "SessionHijack")
        \o Rule(v("sjit") > 10000 \/ v("djit") > 10000, "JitterAnomaly")
        \o Rule(v("dur") > 10000 /\ v("trans_depth") > 100, "Slowloris")
        \o Rule(v("ct_srv_src") > 500 \/ v("ct_srv_dst") > 500,
                "ServiceAbuse")
        \o Rule(v("ct_dst_src_ltm") > 400 /\ v("ct_src_ltm") > 400,
                "TrafficCorrelation")
        \o Rule(v("sload") > 300000 /\ v("dload") > 300000
                  /\ v("dur") > 5000, "WormSpread")
        \o Rule(v("sinpkt") > 1000 \/ v("dinpkt") > 1000,
                "InterpacketTiming")

\* the keys of complete_dashboard's attack_type_history
HistoryKeys ==
    {"DoS", "Fuzzer", "PortScan", "BruteForce", "Recon", "AnomalousIP",
     "HighBandwidth", "SuspiciousTCP", "Replay", "AbnormalPacket",
     "SessionHijack", "JitterAnomaly", "Slowloris", "ServiceAbuse",
     "TrafficCorrelation", "WormSpread", "InterpacketTiming"}

\* attack_type_history as complete_dashboard is imported: every counter 0
FreshHistory == [k \in HistoryKeys |-> 0]

\* the counters a call of detect_all_attack_types increments: one per
\* category appended, and HighBandwidth along with DoS
Counted(attacks) ==
    Range(attacks)
      \cup (IF "DoS" \in Range(attacks) THEN {"HighBandwidth"} ELSE {})

\* attack_types = detect_attack_types(data), in one of the three dashboards
\* that share it
detect_attack_types(dashboard, data) ==
    /\ pc = "serving"
    /\ attack_type_history = << >>
    /\ request' = [dashboard |-> dashboard, data |-> data]
    /\ results' = DetectAttackTypes(data)
    /\ pc' = "detected"
    /\ UNCHANGED << disk, models, scalers, thresholds, feature_groups,
                    basic_models, feature_names, observer, MODELS >>
    /\ UNCHANGED risk_vars
    /\ UNCHANGED dashboard_vars

\* attack_types = detect_all_attack_types(data), in complete_dashboard
detect_all_attack_types(data) ==
    /\ pc = "serving"
    /\ attack_type_history # << >>
    /\ request' = [dashboard |-> "complete_dashboard", data |-> data]
    /\ results' = DetectAllAttackTypes(data)
    /\ attack_type_history' =
         [k \in HistoryKeys |->
            IF k \in Counted(DetectAllAttackTypes(data))
            THEN attack_type_history[k] + 1
            ELSE attack_type_history[k]]
    /\ pc' = "detected"
    /\ UNCHANGED << disk, models, scalers, thresholds, feature_groups,
                    basic_models, feature_names, observer, MODELS >>
    /\ UNCHANGED risk_vars
    /\ UNCHANGED << app, stats, predictions_history, logs, worker >>

\* a dashboard process about to classify one row: complete_dashboard holds
\* its counters, the other three hold none
InitHeuristic ==
    /\ attack_type_history \in {FreshHistory, << >>}
    /\ app = None
    /\ stats = << >>
    /\ predictions_history = << >>
    /\ logs = << >>
    /\ worker = None
    /\ pc = "serving"
    /\ request = None
    /\ results = None
    /\ MODELS = NotImported
    /\ disk = None
    /\ models = << >>
    /\ scalers = {}
    /\ thresholds = << >>
    /\ feature_groups = << >>
    /\ basic_models = << >>
    /\ feature_names = << >>
    /\ observer = NotWatching
    /\ detailed_analysis = << >>
    /\ attack_probability = 0
    /\ risk_score = NoScore

NextHeuristic ==
    \/ \E dashboard \in SameHeuristic, data \in HeuristicRows :
          detect_attack_types(dashboard, data)
    \/ \E data \in HeuristicRows : detect_all_attack_types(data)

SpecHeuristic == InitHeuristic /\ [][NextHeuristic]_vars

\* a heuristic has returned for a row whose features other than sload are 0
OnlySload ==
    /\ pc = "detected"
    /\ \A f \in DOMAIN request.data \ {"sload"} : request.data[f] = 0

\* C20: for every row with |sload| > 1.5 and every other feature 0 the
\* heuristic of every dashboard returns exactly ['DoS', 'High_Bandwidth'],
\* and for the all-zeros row it returns the empty list
C20_Original ==
    OnlySload =>
       /\ Abs(request.data["sload"]) > 15
            => results = << "DoS", "High_Bandwidth" >>
       /\ request.data["sload"] = 0 => results = << >>

\* the three dashboards that share detect_attack_types do return
\* ['DoS', 'High_Bandwidth'] for such a row
SharedHeuristicAgrees ==
    /\ OnlySload
    /\ request.dashboard \in SameHeuristic
    /\ Abs(request.data["sload"]) > 15
    /\ results = << "DoS", "High_Bandwidth" >>

\* complete_dashboard returns the empty list for sload = 2.0, all else 0
CompleteMissesSload ==
    /\ OnlySload
    /\ request.dashboard = "complete_dashboard"
    /\ request.data["sload"] = 20
    /\ results = << >>

\* complete_dashboard returns DoS alone for sload = 60000.0, and counts
\* HighBandwidth in attack_type_history only
CompleteDosAlone ==
    /\ OnlySload
    /\ request.dashboard = "complete_dashboard"
    /\ request.data["sload"] = 600000
    /\ results = << "DoS" >>
    /\ attack_type_history["HighBandwidth"] = 1

-----------------------------------------------------------------------------
(* The port scan verdict *)

\* the returned call evaluated the loaded port scan detector to its end
PortScanEvaluated ==
    /\ ReachedDetectors
    /\ "port_scan_detector" \in DOMAIN models
    /\ ~ RaisedInside("port_scan_detection")

\* C21: whenever the port scan detector is loaded and evaluates without
\* raising, its verdict does not depend on the row: is_port_scan is true,
\* 'Port Scan Pattern' is among the risk factors and the risk score is at
\* least 0.15.
C21_PortScanVerdictIsConstant ==
    PortScanEvaluated =>
        /\ Has(results.detailed_analysis, "port_scan_detection")
        /\ Item(results.detailed_analysis, "port_scan_detection").is_port_scan
        /\ Item(results.detailed_analysis, "port_scan_detection").cluster = 0 - 1
        /\ "Port Scan Pattern" \in Range(results.risk_factors)
        /\ results.risk_score >= 15 * ProbSteps

\* a dict row whose port scan features are all 0 is flagged as a port scan
\* and nothing else is, so the score is 0.15
C21_Witness ==
    /\ PortScanEvaluated
    /\ IsDict(request.row_data)
    /\ \A f \in RequiredFeatures("port_scan_detection") :
          Get(RequestDict, f, Num(0)) = Num(0)
    /\ results.risk_factors = << "Port Scan Pattern" >>
    /\ results.risk_score = 15 * ProbSteps

-----------------------------------------------------------------------------
(* A model name that is not loaded, in a process that has imported
   prediction_api as well *)

\* MODELS as load_models() left them: None, or four classifiers that agree
BothMODELS ==
    { NotImported }
    \cup { [loaded |-> TRUE, proba |-> [n \in Range(BasicModelNames) |-> p]] :
             p \in { 0, One } }

\* the row of a predict_comprehensive request as predict_single_row takes
\* it: a dict or list it can hand to model.predict, a row on which
\* model.predict raises (wrong length, a value that is not a number), or
\* neither a dict nor a list
SingleRowOf(row_data) ==
    IF IsDict(row_data)
    THEN IF AllNumbers(Gather(row_data.items, TrainedFeatureNames))
         THEN "dict" ELSE "short_list"
    ELSE IF IsList(row_data)
    THEN IF Accepts(Len(TrainedFeatureNames), row_data.items)
         THEN "list" ELSE "short_list"
    ELSE "str"

InitBoth ==
    /\ Constructed
    /\ observer = NotWatching
    /\ MODELS \in BothMODELS
    /\ NoDashboard
    /\ disk \in Disks
    /\ detailed_analysis = << >>
    /\ attack_probability = 0
    /\ risk_score = NoScore

NextBoth ==
    \/ \E order \in GlobOrders : load_all_models(order)
    \/ \E row_data \in RowData, model_name \in SingleModelNames :
          predict_comprehensive(row_data, model_name)
    \/ TakeResults

SpecBoth == InitBoth /\ [][NextBoth]_vars

\* a call has returned whose model_name is not among the loaded primary
\* models
UnknownModelReturned ==
    /\ pc = "returned"
    /\ request.model_name \notin DOMAIN basic_models

\* what predict_single_row answers to the arguments of the returned call
SingleAnswer ==
    PredictSingleRow(SingleRowOf(request.row_data), request.model_name)

\* the predict_comprehensive part of C27: no error, the primary fields at
\* their initial values, every loaded detector evaluated, and the score the
\* clamped sum of the flagged detectors' weights
SilentAssessment ==
    /\ "error" \notin DOMAIN results
    /\ results.primary_prediction = None
    /\ results.attack_probability = 0
    /\ results.attack_type = "Normal"
    /\ \A i \in StepsRun : Has(results.detailed_analysis, DetectorSteps[i].analysis)
    /\ results.risk_score = Min(One, SumWeights(Flagged(results.detailed_analysis)))

\* C27 as stated: predict_comprehensive called with a model_name that is not
\* among the loaded primary models reports no error, leaves
\* primary_prediction None, attack_probability 0.0 and attack_type 'Normal',
\* evaluates all loaded detectors and scores the flagged detectors' weights
\* only, whereas predict_single_row returns an error result for the same
\* model name.
C27_Original ==
    UnknownModelReturned =>
        /\ SilentAssessment
        /\ "error" \in DOMAIN SingleAnswer

\* C27 as the code has it: for a dict or list row, predict_comprehensive
\* called with a model_name that is not among the loaded primary models
\* reports no error, leaves the primary fields at their initial values,
\* evaluates all loaded detectors and scores the flagged detectors' weights
\* only.  predict_single_row returns an error result for a name it has not
\* loaded unless the name is 'ensemble', which it answers with the vote of
\* its loaded models.
C27_UnknownModelIsSilent ==
    (UnknownModelReturned /\ RowAccepted) =>
        /\ SilentAssessment
        /\ (request.model_name # "ensemble"
              /\ request.model_name \notin DOMAIN MODELS.proba)
             => "error" \in DOMAIN SingleAnswer
        /\ (request.model_name = "ensemble" /\ MODELS.loaded
              /\ SingleRowOf(request.row_data) \in { "dict", "list" })
             => /\ "error" \notin DOMAIN SingleAnswer
                /\ SingleAnswer.model_used = "ensemble"

\* 'svm' on the sload = 2.0 row with everything loaded: no error, the port
\* scan weight is the score, and predict_single_row rejects the name
C27_Witness ==
    /\ UnknownModelReturned
    /\ RowAccepted
    /\ request.model_name = "svm"
    /\ basic_models # << >>
    /\ MODELS.loaded
    /\ results.risk_score > 0
    /\ results.primary_prediction = None
    /\ SingleAnswer.error = "Invalid model name."

\* 'ensemble' is unknown to predict_comprehensive and answered by
\* predict_single_row
EnsembleAnsweredBySingle ==
    /\ UnknownModelReturned
    /\ RowAccepted
    /\ request.model_name = "ensemble"
    /\ "error" \notin DOMAIN results
    /\ "error" \notin DOMAIN SingleAnswer

-----------------------------------------------------------------------------
(* The dashboards: one process running clean_dashboard.py, fixed_dashboard.py,
   enhanced_live_dashboard.py, dashboard_server.py, complete_dashboard.py,
   powerful_dashboard.py (Flask) or live_dashboard.py (Streamlit).  A request
   handler is one step; auto_detection_worker runs as a thread of its own,
   one statement a step.  Left out: the attack_histories chart deques and the
   network_logs generator of clean_dashboard and fixed_dashboard, and the
   text of log messages; a log entry is its level, a recorded prediction its
   label and the number of predictions recorded before it. *)

Dashboards ==
    SameHeuristic \cup { "dashboard_server", "complete_dashboard",
                         "powerful_dashboard", "live_dashboard" }

\* the dashboards that start auto_detection_worker at import
WorkerDashboards == { "complete_dashboard", "powerful_dashboard" }

\* predictions_history = deque(maxlen=...)
history_maxlen(d) ==
    CASE d \in SameHeuristic \cup { "complete_dashboard" } -> 500
      [] d \in { "dashboard_server", "powerful_dashboard" } -> 200
      [] OTHER -> 100

\* the maxlen of the dashboard's log deques
log_maxlen(d) ==
    CASE d \in SameHeuristic \cup { "complete_dashboard" } -> 200
      [] d \in { "dashboard_server", "powerful_dashboard" } -> 100
      [] OTHER -> 50

\* the dashboard's log deques
LogNames(d) ==
    CASE d \in SameHeuristic -> { "logs", "attack_logs" }
      [] d \in WorkerDashboards -> { "detection_logs", "original_logs" }
      [] OTHER -> { "logs" }

\* an append that never evicts
deque_append_unbounded(dq, x, maxlen) == Append(dq, x)

\* deque.append(x) on a deque(maxlen=maxlen)
deque_append(dq, x, maxlen) ==
    IF Len(dq) >= maxlen THEN Append(Tail(dq), x) ELSE Append(dq, x)

\* the keys of stats['model_usage']
UsageKeys == Range(BasicModelNames) \cup { "ensemble" }

\* the keys of stats['attack_types']
TypeKeys ==
    { "DoS", "Fuzzer", "Port_Scan", "Brute_Force", "Reconnaissance",
      "Anomalous_IP", "High_Bandwidth", "Suspicious_TCP", "Replay_Attack",
      "Abnormal_Packet", "Session_Hijacking", "Jitter_Anomaly", "Slowloris",
      "Service_Abuse", "Traffic_Correlation", "Worm_Spread", "Timing_Attack",
      "Other" }

\* the stats dict of the module as it is imported
FreshStats(d) ==
    [ total_predictions |-> 0, attacks_detected |-> 0, normal_traffic |-> 0,
      model_usage |-> [k \in UsageKeys |-> 0] ]
    @@ (IF d \in SameHeuristic THEN [attack_types |-> [k \in TypeKeys |-> 0]]
        ELSE IF d \in WorkerDashboards THEN [detection_running |-> FALSE]
        ELSE << >>)

\* the log deques with nothing recorded: empty, and in live_dashboard the
\* three entries the script adds whenever it finds logs empty
FreshLogs(d) ==
    [n \in LogNames(d) |->
        IF d = "live_dashboard" THEN << "info", "success", "info" >> ELSE << >>]

\* a clear that leaves model_usage as it is
clear_stats_keep_usage(d, st) ==
    [st EXCEPT !.total_predictions = 0, !.attacks_detected = 0,
               !.normal_traffic = 0]

\* a clear that stops auto-detection as well
clear_stats_stopping(d, st) == FreshStats(d)

\* stats after clear_history: the worker dashboards reset four entries of
\* the dict in place, the others bind a new dict
clear_stats(d, st) ==
    IF d \in WorkerDashboards
    THEN [st EXCEPT !.total_predictions = 0, !.attacks_detected = 0,
                    !.normal_traffic = 0,
                    !.model_usage = [k \in UsageKeys |-> 0]]
    ELSE FreshStats(d)

\* a counter update that does not know the category High_Bandwidth
count_attack_types_untracked(counts, attack_types) ==
    [k \in DOMAIN counts |->
        counts[k]
        + (IF k \in Range(attack_types) \ { "High_Bandwidth" } THEN 1 ELSE 0)
        + (IF k = "Other" /\ "High_Bandwidth" \in Range(attack_types)
           THEN 1 ELSE 0)]

\* for attack_type in attack_types: stats['attack_types'][attack_type] += 1
\* if it is a key, else stats['attack_types']['Other'] += 1
count_attack_types(counts, attack_types) ==
    [k \in DOMAIN counts |->
        counts[k]
        + (IF k \in Range(attack_types) THEN 1 ELSE 0)
        + (IF k = "Other"
           THEN Cardinality(Range(attack_types) \ DOMAIN counts) ELSE 0)]

\* the rows load_sample_data() is drawn to return: a flow whose sload is
\* 60000.0, and one with state = 2.0 and dur = -2.0
SampleRows ==
    { [f \in { "sload" } |-> 600000],
      [f \in { "state", "dur" } |-> IF f = "state" THEN 20 ELSE 0 - 20] }

\* a sampled row with what the classifiers make of it: the attack
\* probability they all give it, or a row model.predict raises on
Samples ==
    { [data |-> r, proba |-> p, readable |-> TRUE] :
        r \in SampleRows, p \in { 0, One } }
    \cup { [data |-> << >>, proba |-> 0, readable |-> FALSE] }

\* the model names a request carries: two loaded ones and one that is none
RequestModels == { "random_forest", "ensemble", "svm" }

\* result = predict_single_row(data, model_name=model)
Answer(sample, model) ==
    PredictWith(IF MODELS.loaded
                THEN [loaded |-> TRUE,
                      proba |-> [n \in Range(BasicModelNames) |-> sample.proba]]
                ELSE NotImported,
                IF sample.readable THEN "dict" ELSE "short_list", model)

\* a result that is neither an error dict nor an exception
Predicted(result) ==
    "error" \notin DOMAIN result /\ "exception" \notin DOMAIN result

\* how many requests and worker cycles a behaviour holds
MaxRequests == 3

Budget == observer.requests + observer.cycles < MaxRequests

\* the list of attack types the dashboard's heuristic returns for the row
AttackTypes(d, data) ==
    IF d \in SameHeuristic THEN DetectAttackTypes(data)
    ELSE IF d = "complete_dashboard" THEN DetectAllAttackTypes(data)
    ELSE << >>

\* the POST /api/predict handler (make_prediction in live_dashboard)
api_predict(sample, model) ==
    /\ pc = "serving"
    /\ Budget
    /\ LET result == Answer(sample, model)
           ok == Predicted(result)
           attack == ok /\ result.prediction = 1
           attack_types == AttackTypes(app, sample.data)
           level == IF app = "live_dashboard"
                    THEN IF attack THEN "error" ELSE "success"
                    ELSE IF attack THEN "attack" ELSE "normal"
           counted == [stats EXCEPT
                         !.total_predictions = @ + 1,
                         !.attacks_detected = IF attack THEN @ + 1 ELSE @,
                         !.normal_traffic = IF attack THEN @ ELSE @ + 1,
                         !.model_usage[model] = @ + 1]
       IN  /\ stats' =
                IF ~ ok THEN stats
                ELSE IF app \in SameHeuristic /\ attack
                THEN [counted EXCEPT
                        !.attack_types = count_attack_types(@, attack_types)]
                ELSE counted
           /\ predictions_history' =
                IF ~ ok THEN predictions_history
                ELSE deque_append(predictions_history,
                                  [n |-> observer.recorded + 1,
                                   prediction |-> result.prediction],
                                  history_maxlen(app))
           /\ logs' =
                [n \in DOMAIN logs |->
                   IF n = "original_logs"
                   THEN deque_append(logs[n], "packet", log_maxlen(app))
                   ELSE IF ok
                   THEN deque_append(logs[n], level, log_maxlen(app))
                   ELSE IF app = "live_dashboard" /\ "exception" \in DOMAIN result
                   THEN deque_append(logs[n], "error", log_maxlen(app))
                   ELSE logs[n]]
           /\ attack_type_history' =
                IF ok /\ app = "complete_dashboard"
                THEN [k \in HistoryKeys |->
                        IF k \in Counted(attack_types)
                        THEN attack_type_history[k] + 1
                        ELSE attack_type_history[k]]
                ELSE attack_type_history
           /\ request' = [route |-> "/api/predict", model |-> model]
           /\ results' = [success |-> ok]
           /\ observer' = [observer EXCEPT
                             !.requests = @ + 1,
                             !.recorded = IF ok THEN @ + 1 ELSE @,
                             !.served = IF ok THEN @ + 1 ELSE @]
    /\ UNCHANGED << disk, models, scalers, thresholds, feature_groups,
                    basic_models, feature_names, pc, MODELS, app, worker >>
    /\ UNCHANGED risk_vars

\* the POST /api/clear handler (the Clear History button in live_dashboard)
clear_history ==
    /\ pc = "serving"
    /\ Budget
    /\ stats' = clear_stats(app, stats)
    /\ predictions_history' = << >>
    /\ logs' = FreshLogs(app)
    /\ attack_type_history' =
         IF app = "complete_dashboard" THEN FreshHistory ELSE attack_type_history
    /\ request' = [route |-> "/api/clear", model |-> None]
    /\ results' = [success |-> TRUE]
    /\ observer' = [observer EXCEPT !.requests = @ + 1, !.served = 0]
    /\ UNCHANGED << disk, models, scalers, thresholds, feature_groups,
                    basic_models, feature_names, pc, MODELS, app, worker >>
    /\ UNCHANGED risk_vars

\* the POST /api/toggle_detection handler of the worker dashboards
toggle_detection ==
    /\ pc = "serving"
    /\ Budget
    /\ app \in WorkerDashboards
    /\ stats' = [stats EXCEPT !.detection_running = ~ @]
    /\ logs' = [logs EXCEPT !["detection_logs"] =
                               deque_append(@, "info", log_maxlen(app))]
    /\ request' = [route |-> "/api/toggle_detection", model |-> None]
    /\ results' = [running |-> ~ stats.detection_running]
    /\ observer' = [observer EXCEPT !.requests = @ + 1, !.toggles = @ + 1,
                                     !.since_off = 0]
    /\ UNCHANGED << disk, models, scalers, thresholds, feature_groups,
                    basic_models, feature_names, pc, MODELS, app, worker,
                    predictions_history, attack_type_history >>
    /\ UNCHANGED risk_vars

\* a start of a cycle whatever the flag says
MayStartAlways == TRUE

\* if stats['detection_running']: at the top of the worker's loop
MayStart == stats.detection_running

\* the sample a worker between two cycles holds
NoSample == [data |-> << >>, proba |-> 0, readable |-> FALSE]

Sleeping == [at |-> "sleeping", sample |-> NoSample]

\* what a worker step leaves alone besides the dashboard's own state
WorkerFrame ==
    /\ UNCHANGED << disk, models, scalers, thresholds, feature_groups,
                    basic_models, feature_names, pc, MODELS, app, request,
                    results >>
    /\ UNCHANGED risk_vars

\* the worker finds the flag set, draws a row and has it classified by the
\* ensemble; on an error result or an exception the cycle ends there
worker_wake(sample) ==
    /\ pc = "serving"
    /\ app \in WorkerDashboards
    /\ worker.at = "sleeping"
    /\ Budget
    /\ MayStart
    /\ worker' =
         IF ~ Predicted(Answer(sample, "ensemble")) THEN Sleeping
         ELSE [at |-> IF app = "complete_dashboard" THEN "detect" ELSE "count",
               sample |-> sample]
    /\ observer' = [observer EXCEPT
                      !.cycles = @ + 1,
                      !.since_off = IF Predicted(Answer(sample, "ensemble"))
                                       \/ stats.detection_running
                                    THEN @ ELSE @ + 1]
    /\ UNCHANGED << stats, predictions_history, logs, attack_type_history >>
    /\ WorkerFrame

\* detect_all_attack_types in the worker, up to attack_type_history['DoS'] += 1
worker_detect_dos ==
    /\ worker.at = "detect"
    /\ attack_type_history' =
         IF "DoS" \in Range(DetectAllAttackTypes(worker.sample.data))
         THEN [attack_type_history EXCEPT !["DoS"] = @ + 1]
         ELSE attack_type_history
    /\ worker' = [worker EXCEPT !.at = "detect_rest"]
    /\ UNCHANGED << stats, predictions_history, logs, observer >>
    /\ WorkerFrame

\* the rest of detect_all_attack_types in the worker, from
\* attack_type_history['HighBandwidth'] += 1 on
worker_detect_rest ==
    /\ worker.at = "detect_rest"
    /\ attack_type_history' =
         [k \in HistoryKeys |->
            IF k \in Counted(DetectAllAttackTypes(worker.sample.data)) \ { "DoS" }
            THEN attack_type_history[k] + 1
            ELSE attack_type_history[k]]
    /\ worker' = [worker EXCEPT !.at = "count"]
    /\ UNCHANGED << stats, predictions_history, logs, observer >>
    /\ WorkerFrame

\* stats['total_predictions'] += 1 in the worker
worker_count ==
    /\ worker.at = "count"
    /\ stats' = [stats EXCEPT !.total_predictions = @ + 1]
    /\ worker' = [worker EXCEPT !.at = "verdict"]
    /\ UNCHANGED << predictions_history, logs, attack_type_history, observer >>
    /\ WorkerFrame

\* the worker counts the verdict and logs it
worker_verdict ==
    /\ worker.at = "verdict"
    /\ LET attack == Answer(worker.sample, "ensemble").prediction = 1
       IN  /\ stats' = [stats EXCEPT
                          !.attacks_detected = IF attack THEN @ + 1 ELSE @,
                          !.normal_traffic = IF attack THEN @ ELSE @ + 1]
           /\ logs' = [logs EXCEPT !["detection_logs"] =
                         deque_append(@, IF attack THEN "attack" ELSE "normal",
                                      log_maxlen(app))]
    /\ worker' = [worker EXCEPT !.at = "record"]
    /\ UNCHANGED << predictions_history, attack_type_history, observer >>
    /\ WorkerFrame

\* the worker appends to original_logs and predictions_history, counts the
\* model used and goes to sleep
worker_record ==
    /\ worker.at = "record"
    /\ logs' = [logs EXCEPT !["original_logs"] =
                  deque_append(@, "packet", log_maxlen(app))]
    /\ predictions_history' =
         deque_append(predictions_history,
                      [n |-> observer.recorded + 1,
                       prediction |-> Answer(worker.sample, "ensemble").prediction],
                      history_maxlen(app))
    /\ stats' = [stats EXCEPT !.model_usage["ensemble"] = @ + 1]
    /\ worker' = Sleeping
    /\ observer' = [observer EXCEPT
                      !.recorded = @ + 1,
                      !.served = @ + 1,
                      !.since_off = IF stats.detection_running THEN @ ELSE @ + 1]
    /\ UNCHANGED attack_type_history
    /\ WorkerFrame

\* how many predictions a process has served before the behaviour starts:
\* none, or one short of filling predictions_history
Served(d) == { 0, history_maxlen(d) - 1 }

\* the last n entries of n0 entries x
Filled(x, n0, n) == [i \in 1..Min(n0, n) |-> x]

\* a process that has served w requests for random_forest on normal rows
\* that fire no heuristic, one after the other, since it started
ServedQuietly(d, w) ==
    /\ stats = [FreshStats(d) EXCEPT
                  !.total_predictions = w, !.normal_traffic = w,
                  !.model_usage["random_forest"] = w]
    /\ predictions_history = [i \in 1..w |-> [n |-> i, prediction |-> 0]]
    /\ logs = [n \in LogNames(d) |->
                 IF w = 0 THEN FreshLogs(d)[n]
                 ELSE Filled(IF n = "original_logs" THEN "packet"
                             ELSE IF d = "live_dashboard" THEN "success"
                             ELSE "normal", w, log_maxlen(d))]
    /\ observer = [requests |-> 0, cycles |-> 0, recorded |-> w, served |-> w,
                   toggles |-> 0, since_off |-> 0]

\* no request handled and no response sent yet
NoRequest == [route |-> None, model |-> None]

NoResponse == [status |-> None]

InitDashboard ==
    /\ pc = "serving"
    /\ request = NoRequest
    /\ results = NoResponse
    /\ disk = None
    /\ models = << >>
    /\ scalers = {}
    /\ thresholds = << >>
    /\ feature_groups = << >>
    /\ basic_models = << >>
    /\ feature_names = << >>
    /\ detailed_analysis = << >>
    /\ attack_probability = 0
    /\ risk_score = NoScore
    /\ MODELS \in { NotImported, [loaded |-> TRUE,
                                   proba |-> [n \in Range(BasicModelNames) |-> 0]] }
    /\ app \in Dashboards
    /\ \E w \in Served(app) : ServedQuietly(app, w)
    /\ attack_type_history =
         IF app = "complete_dashboard" THEN FreshHistory ELSE << >>
    /\ worker = Sleeping

NextDashboard ==
    \/ \E sample \in Samples, model \in RequestModels : api_predict(sample, model)
    \/ clear_history
    \/ toggle_detection
    \/ \E sample \in Samples : worker_wake(sample)
    \/ worker_detect_dos
    \/ worker_detect_rest
    \/ worker_count
    \/ worker_verdict
    \/ worker_record

SpecDashboard == InitDashboard /\ [][NextDashboard]_vars

-----------------------------------------------------------------------------
(* The counters of a dashboard that has no worker *)

\* sum(stats['model_usage'].values())
UsageSum(usage) ==
    usage["random_forest"] + usage["decision_tree"] + usage["xgboost"]
      + usage["lightgbm"] + usage["ensemble"]

\* the dashboards the claim names, which serve one request after the other
Sequential == { "clean_dashboard", "dashboard_server" }

\* C22: in clean_dashboard and dashboard_server, after any sequence of
\* completed /api/predict and /api/clear requests, total_predictions equals
\* attacks_detected + normal_traffic, equals the sum of the model_usage
\* counters, and equals the number of successful predictions since the
\* last clear.
C22_CountersAgree ==
    app \in Sequential =>
        /\ stats.total_predictions = stats.attacks_detected + stats.normal_traffic
        /\ stats.total_predictions = UsageSum(stats.model_usage)
        /\ stats.total_predictions = observer.served

\* clean_dashboard after a clear that followed recorded predictions, then an
\* attack and a normal flow served for two different models
C22_Witness ==
    /\ app = "clean_dashboard"
    /\ observer.recorded > observer.served
    /\ stats.attacks_detected = 1
    /\ stats.normal_traffic = 1
    /\ stats.model_usage["ensemble"] = 1
    /\ stats.model_usage["random_forest"] = 1

-----------------------------------------------------------------------------
(* The counters of complete_dashboard while its worker runs *)

\* attack_rate of GET /api/predictions, in percent, rounded down:
\* stats['attacks_detected'] / max(stats['total_predictions'], 1) * 100
attack_rate(st) ==
    (st.attacks_detected * 100)
      \div (IF st.total_predictions > 1 THEN st.total_predictions ELSE 1)

\* C23: in complete_dashboard, under every interleaving of the worker with
\* /api/predict and /api/clear, whenever no prediction cycle is in progress
\* attacks_detected + normal_traffic = total_predictions; so attacks_detected
\* <= total_predictions and the attack_rate lies between 0 and 100.
C23_Original ==
    (app = "complete_dashboard" /\ worker.at = "sleeping") =>
        /\ stats.attacks_detected + stats.normal_traffic = stats.total_predictions
        /\ stats.attacks_detected <= stats.total_predictions
        /\ attack_rate(stats) \in 0..100

-----------------------------------------------------------------------------
(* Starting and stopping auto-detection *)

\* a step of the worker thread: anything but a request
WorkerStep == observer'.requests = observer.requests

\* the flag is what the toggles so far make of an initial False, and while
\* it is False at most one cycle has completed since it was cleared
StoppedInTime ==
    app \in WorkerDashboards =>
        /\ stats.detection_running = (observer.toggles % 2 = 1)
        /\ ~ stats.detection_running => observer.since_off <= 1

\* the worker leaves its sleep only with the flag set, and with the flag
\* clear and no cycle under way it changes no counter, history or log
StartsOnlyWhenRunning ==
    (app \in WorkerDashboards /\ WorkerStep /\ worker.at = "sleeping") =>
        /\ worker'.at # "sleeping" \/ observer'.cycles # observer.cycles
             => stats.detection_running
        /\ ~ stats.detection_running =>
             UNCHANGED << stats, predictions_history, logs, attack_type_history >>

\* C24: the worker of complete_dashboard and powerful_dashboard starts a
\* cycle only when it observes detection_running = True, which is False
\* initially; after a toggle sets it to False at most one cycle already
\* started completes and the worker then changes no counter, history or log
\* until detection is toggled on again; each toggle flips the flag, so two
\* toggles restore it.
C24_WorkerObeysFlag == [] StoppedInTime /\ [][StartsOnlyWhenRunning]_vars

\* detection was switched on and off again, and the cycle begun in between
\* has completed with the flag already False
C24_Witness ==
    /\ app \in WorkerDashboards
    /\ observer.toggles = 2
    /\ ~ stats.detection_running
    /\ observer.since_off = 1
    /\ worker.at = "sleeping"
    /\ stats.total_predictions = 1

-----------------------------------------------------------------------------
(* The bounded history and logs *)

\* no deque holds more than its maxlen, predictions_history holds the most
\* recent predictions in the order they were recorded, and where requests
\* are the only writers its length is min(total_predictions, maxlen)
MostRecentKept ==
    /\ Len(predictions_history) <= history_maxlen(app)
    /\ \A name \in DOMAIN logs : Len(logs[name]) <= log_maxlen(app)
    /\ \A i \in 1..Len(predictions_history) :
         predictions_history[i].n
           = observer.recorded - Len(predictions_history) + i
    /\ app \notin WorkerDashboards =>
         Len(predictions_history)
           = Min(stats.total_predictions, history_maxlen(app))

\* a prediction recorded into a full history pushes the oldest one out
EvictsOldest ==
    (/\ observer'.recorded = observer.recorded + 1
     /\ Len(predictions_history) = history_maxlen(app))
    => /\ Len(predictions_history') = history_maxlen(app)
       /\ \A i \in 1..(Len(predictions_history) - 1) :
            predictions_history'[i] = predictions_history[i + 1]
       /\ predictions_history'[Len(predictions_history')].n
            = observer.recorded + 1

-----------------------------------------------------------------------------
(* A request for a prediction that fails *)

\* the step is a POST /api/predict answered with success = False
FailedPredict ==
    /\ app # "live_dashboard"
    /\ observer'.requests # observer.requests
    /\ request'.route = "/api/predict"
    /\ ~ results'.success

\* C26: a /api/predict request that ends with success = False (models not
\* loaded, invalid model name, or an exception) changes no server-side
\* state: the stats counters, predictions_history and every log deque are
\* as they were before the request.
C26_Original ==
    [][FailedPredict => UNCHANGED << stats, predictions_history, logs >>]_vars

-----------------------------------------------------------------------------
(* Clearing while auto-detection runs *)

\* the step is a POST /api/clear to a dashboard with a worker
WorkerDashboardCleared ==
    /\ app \in WorkerDashboards
    /\ observer'.requests # observer.requests
    /\ request'.route = "/api/clear"

\* C28: /api/clear in complete_dashboard and powerful_dashboard resets
\* total_predictions, attacks_detected, normal_traffic and every model_usage
\* counter to 0 and empties predictions_history, detection_logs and
\* original_logs, but leaves stats['detection_running'] unchanged, so the
\* worker is not stopped and goes on counting from zero.
C28_ClearKeepsRunning ==
    [][WorkerDashboardCleared =>
         /\ stats'.total_predictions = 0
         /\ stats'.attacks_detected = 0
         /\ stats'.normal_traffic = 0
         /\ \A k \in UsageKeys : stats'.model_usage[k] = 0
         /\ predictions_history' = << >>
         /\ logs'["detection_logs"] = << >>
         /\ logs'["original_logs"] = << >>
         /\ stats'.detection_running = stats.detection_running
         /\ worker' = worker]_vars

\* a process that had recorded predictions was cleared while detection was
\* running, and the worker has since recorded one cycle
C28_Witness ==
    /\ app \in WorkerDashboards
    /\ request.route = "/api/clear"
    /\ stats.detection_running
    /\ observer.recorded = history_maxlen(app)
    /\ stats.total_predictions = 1
    /\ Len(predictions_history) = 1
    /\ worker.at = "sleeping"

-----------------------------------------------------------------------------
(* The HighBandwidth counter of complete_dashboard *)

\* C29: in complete_dashboard, in every state reached by requests handled
\* one at a time, attack_type_history['HighBandwidth'] equals
\* attack_type_history['DoS'], and 'HighBandwidth' never appears in the
\* list detect_all_attack_types returns.
C29_Original ==
    (app = "complete_dashboard" /\ worker.at = "sleeping") =>
        /\ attack_type_history["HighBandwidth"] = attack_type_history["DoS"]
        /\ \A sample \in Samples :
             "HighBandwidth" \notin Range(DetectAllAttackTypes(sample.data))

-----------------------------------------------------------------------------
(* The categories the shared heuristic never counts *)

\* rows holding state and dur, each -2.0, 0, 1.2 or 60000.0
SessionRows ==
    { [f \in { "state", "dur" } |-> IF f = "state" THEN s ELSE d] :
        s \in OtherValues, d \in OtherValues }

====
